---- MODULE Spec2Model ----
(***************************************************************************)
(* repoChat: the repository-ingestion pipeline (URL -> identity -> walk    *)
(* -> prioritize -> snapshot -> cache) of src/server.js and                *)
(* src/services/githubService.js.                                          *)
(*                                                                         *)
(* JavaScript strings that the code inspects character by character        *)
(* (URLs, file and directory names) are TLA+ strings, handled with Len,    *)
(* SubSeq and \o.  File contents, which reach 20,000 characters and more,  *)
(* are run-length encoded: a sequence of runs [ch |-> c, n |-> k] standing *)
(* for k copies of the character c, adjacent runs holding different        *)
(* characters and no run being empty.                                      *)
(***************************************************************************)
EXTENDS Integers, Sequences, FiniteSets, TLC

VARIABLES
    repoCache,  \* server.js:19, the Map "owner/repo" -> snapshot
    req,        \* the requests in flight: slot -> async task, Null when free
    last,       \* the task that ended most recently, with its response
    puts,       \* history of repoCache.set, per key: the first and the latest
                \* snapshot stored and the requests its ingestion issued
    geminiKey,  \* server.js:14, whether GEMINI_API_KEY is configured
    parsed,     \* the last URL given to extractRepoInfo alone, and its result
    applied     \* the last application of the prioritizing sort or of the
                \* search on its own: its arguments and its result

vars == <<repoCache, req, last, puts, geminiKey, parsed, applied>>

Null == [null |-> TRUE]          \* JavaScript null / undefined

Min(a, b) == IF a < b THEN a ELSE b
Max(a, b) == IF a > b THEN a ELSE b

-----------------------------------------------------------------------------
(* String primitives of JavaScript used by the code.                       *)

CharAt(s, i) == SubSeq(s, i, i)          \* 1-based

UpperLetters == "ABCDEFGHIJKLMNOPQRSTUVWXYZ"
LowerLetters == "abcdefghijklmnopqrstuvwxyz"

LowerChar(c) ==
    IF \E i \in 1..26 : CharAt(UpperLetters, i) = c
    THEN CharAt(LowerLetters, CHOOSE i \in 1..26 : CharAt(UpperLetters, i) = c)
    ELSE c

UpperChar(c) ==
    IF \E i \in 1..26 : CharAt(LowerLetters, i) = c
    THEN CharAt(UpperLetters, CHOOSE i \in 1..26 : CharAt(LowerLetters, i) = c)
    ELSE c

RECURSIVE ToLowerCase(_)
ToLowerCase(s) ==
    IF Len(s) = 0 THEN ""
    ELSE LowerChar(CharAt(s, 1)) \o ToLowerCase(SubSeq(s, 2, Len(s)))

RECURSIVE ToUpperCase(_)
ToUpperCase(s) ==
    IF Len(s) = 0 THEN ""
    ELSE UpperChar(CharAt(s, 1)) \o ToUpperCase(SubSeq(s, 2, Len(s)))

\* s.startsWith(p) at 1-based position i
MatchesAt(s, p, i) ==
    /\ i >= 1
    /\ i + Len(p) - 1 <= Len(s)
    /\ SubSeq(s, i, i + Len(p) - 1) = p

StartsWith(s, p) == MatchesAt(s, p, 1)
EndsWith(s, p) == MatchesAt(s, p, Len(s) - Len(p) + 1)
Includes(s, p) == \E i \in 1..(Len(s) + 1) : MatchesAt(s, p, i)

\* the position after the longest run of non-'/' characters starting at i
RECURSIVE SkipNonSlash(_, _)
SkipNonSlash(s, i) ==
    IF i <= Len(s) /\ CharAt(s, i) # "/" THEN SkipNonSlash(s, i + 1) ELSE i

\* position of the last '.' of s, 0 when there is none
LastDot(s) ==
    LET P == {i \in 1..Len(s) : CharAt(s, i) = "."}
    IN IF P = {} THEN 0 ELSE CHOOSE i \in P : \A j \in P : j <= i

-----------------------------------------------------------------------------
(* extractRepoInfo: url.match(/github\.com\/([^\/]+)\/([^\/]+)/), the      *)
(* leftmost match with greedy groups, then the two replace calls on the    *)
(* second group.                                                           *)

HostLiteral == "github.com/"

\* [from, o1, o2, r1, r2] of the match starting at i, or Null.  A greedy
\* [^\/]+ followed by a literal '/' can only end at the end of the run of
\* non-'/' characters, so backtracking never finds another match at i.
MatchAt(url, i) ==
    IF ~MatchesAt(url, HostLiteral, i) THEN Null
    ELSE LET o1 == i + Len(HostLiteral)
             o2 == SkipNonSlash(url, o1)
             r1 == o2 + 1
             r2 == SkipNonSlash(url, r1)
         IN IF o2 > o1 /\ o2 <= Len(url) /\ CharAt(url, o2) = "/" /\ r2 > r1
            THEN [owner |-> SubSeq(url, o1, o2 - 1), repo |-> SubSeq(url, r1, r2 - 1)]
            ELSE Null

UrlMatch(url) ==
    LET P == {i \in 1..Len(url) : MatchAt(url, i) # Null}
    IN IF P = {} THEN Null
       ELSE MatchAt(url, CHOOSE i \in P : \A j \in P : i <= j)

\* mutant: the trailing '.git' is kept
StripDotGitKept(s) == s

\* s.replace(/\.git$/, '')
StripDotGit(s) ==
    IF EndsWith(s, ".git") THEN SubSeq(s, 1, Len(s) - 4) ELSE s

\* s.replace(/\/$/, '')
StripSlash(s) ==
    IF EndsWith(s, "/") THEN SubSeq(s, 1, Len(s) - 1) ELSE s

extractRepoInfo(url) ==
    LET m == UrlMatch(url)
    IN IF m # Null
       THEN [owner |-> m.owner, repo |-> StripSlash(StripDotGit(m.repo))]
       ELSE Null

-----------------------------------------------------------------------------
(* Run-length encoded text: file contents.                                 *)

Text(runs) == [text |-> runs]       \* a JavaScript string value holding contents
Rep(c, k) == [ch |-> c, n |-> k]

\* the sum of the lengths of runs a..b
RECURSIVE RunsSum(_, _, _)
RunsSum(runs, a, b) ==
    IF a > b THEN 0
    ELSE IF a = b THEN runs[a].n
    ELSE RunsSum(runs, a, (a + b) \div 2) + RunsSum(runs, ((a + b) \div 2) + 1, b)

RunsLen(runs) == RunsSum(runs, 1, Len(runs))

\* the first k characters of runs: the runs that end within them, and the
\* part of the next run that is left
RunsTake(runs, k) ==
    LET Whole == {j \in 0..Len(runs) : RunsSum(runs, 1, j) <= k}
        n == IF k <= 0 THEN 0 ELSE CHOOSE j \in Whole : \A i \in Whole : i <= j
        rest == k - RunsSum(runs, 1, n)
    IN IF n < Len(runs) /\ rest > 0
       THEN SubSeq(runs, 1, n) \o <<Rep(runs[n + 1].ch, rest)>>
       ELSE SubSeq(runs, 1, n)

\* content.substring(0, k)
substring(content, k) == Text(RunsTake(content.text, k))

\* if (content): null and the empty string are falsy
Truthy(content) == content # Null /\ RunsLen(content.text) > 0

-----------------------------------------------------------------------------
(* Limits and lists of getRepositoryCode.                                  *)

FileSizeLimit == 200000         \* getFileContent: response.data.size < 200000
CodeSizeLimit == 300000         \* item.size < 300000
CodeContentCap == 20000         \* content.substring(0, 20000)
ImportantContentCap == 8000     \* content.substring(0, 8000)
MaxEntries == 60                \* contents.slice(0, 60)
MaxDepth == 3                   \* if (depth > 3) return
MaxCodeFiles == 25              \* codeFiles.slice(0, 25)

codeExtensions ==
    <<".js", ".ts", ".tsx", ".jsx", ".py", ".java", ".cpp", ".c", ".go", ".rs",
      ".php", ".rb", ".swift", ".kt", ".vue", ".svelte">>
configFiles ==
    <<"package.json", "requirements.txt", "Cargo.toml", "pom.xml", "build.gradle",
      "Dockerfile", "docker-compose.yml", ".env.example">>
docFiles == <<"README.md", "CHANGELOG.md", "CONTRIBUTING.md", "docs.md">>
skippedDirs ==
    <<"node_modules", "dist", "build", "target", "__pycache__", "vendor", ".git">>
importantDirs ==
    <<"src", "lib", "app", "components", "utils", "services", "controllers",
      "models", "routes", "middleware", "config">>
priority == <<"index", "main", "app", "server", "router">>

\* array.includes(x)
ArrayIncludes(arr, x) == \E i \in 1..Len(arr) : arr[i] = x

\* mutant: the whole array
sliceWhole(arr, k) == arr

\* array.slice(0, k)
slice(arr, k) == SubSeq(arr, 1, Min(k, Len(arr)))

\* if (configFiles.includes(fileName) || docFiles.includes(fileName))
IsImportantCandidate(fileName) ==
    ArrayIncludes(configFiles, fileName) \/ ArrayIncludes(docFiles, fileName)

\* mutant: no size ceiling on source files
IsCodeCandidateAnySize(fileName, size) ==
    \E i \in 1..Len(codeExtensions) : EndsWith(fileName, codeExtensions[i])

\* if (codeExtensions.some(ext => fileName.endsWith(ext)) && item.size < 300000)
IsCodeCandidate(fileName, size) ==
    /\ \E i \in 1..Len(codeExtensions) : EndsWith(fileName, codeExtensions[i])
    /\ size < CodeSizeLimit

\* mutant: only hidden directories are skipped
IsAdmittedDirNoDenylist(item) ==
    /\ item.type = "dir"
    /\ ~StartsWith(item.name, ".")

\* item.type === 'dir' && !item.name.startsWith('.') && ![...].includes(item.name)
IsAdmittedDir(item) ==
    /\ item.type = "dir"
    /\ ~StartsWith(item.name, ".")
    /\ ~ArrayIncludes(skippedDirs, item.name)

\* mutant: the name is compared as it is spelled
IsTraversedExactCase(item, depth) ==
    ArrayIncludes(importantDirs, item.name) \/ depth = 0

\* if (importantDirs.includes(item.name.toLowerCase()) || depth === 0)
IsTraversed(item, depth) ==
    ArrayIncludes(importantDirs, ToLowerCase(item.name)) \/ depth = 0

langMap ==
    [js |-> "JavaScript", ts |-> "TypeScript", tsx |-> "TypeScript",
     jsx |-> "JavaScript", py |-> "Python", java |-> "Java", cpp |-> "C++",
     c |-> "C", go |-> "Go", rs |-> "Rust", php |-> "PHP", rb |-> "Ruby",
     swift |-> "Swift", kt |-> "Kotlin", vue |-> "Vue", svelte |-> "Svelte"]

\* filename.split('.').pop().toLowerCase(), then langMap[ext] || ext.toUpperCase()
getLanguageFromExtension(filename) ==
    LET ext == ToLowerCase(SubSeq(filename, LastDot(filename) + 1, Len(filename)))
    IN IF ext \in DOMAIN langMap THEN langMap[ext] ELSE ToUpperCase(ext)

\* `${currentPath}/${item.name}` or item.name
JoinPath(currentPath, name) ==
    IF currentPath # "" THEN currentPath \o "/" \o name ELSE name

-----------------------------------------------------------------------------
(* The content-hosting API: what GET /repos/:owner/:repo and               *)
(* GET /repos/:owner/:repo/contents/:path answer.  A repository is         *)
(* [meta, dirs, files]: dirs maps a directory path to its listing, files   *)
(* maps a file path to the response data {type, size, content}; content    *)
(* holds the text that Buffer.from(content, 'base64').toString('utf-8')    *)
(* yields.  Listings are in the API's order (by name, upper case first).   *)

MaxFail == 2    \* failed requests (network errors) injected per ingestion

File(name, size) == [name |-> name, type |-> "file", size |-> size]
Dir(name) == [name |-> name, type |-> "dir", size |-> 0]
Blob(size, runs) == [type |-> "file", size |-> size, content |-> runs]
Meta(name, language) ==
    [name |-> name, description |-> Null, language |-> language,
     stargazers_count |-> 1, forks_count |-> 0, topics |-> <<>>,
     homepage |-> Null]

\* one source file, a.js
RepoTiny ==
    [meta  |-> Meta("r", "JavaScript"),
     dirs  |-> [p \in {""} |-> <<File("a.js", 500)>>],
     files |-> [p \in {"a.js"} |-> Blob(500, <<Rep("a", 500)>>)]]

\* index.js (500 bytes), README.md and utils/helper.js (500 bytes)
RepoEndToEnd ==
    [meta  |-> Meta("e2e", "JavaScript"),
     dirs  |-> ("" :> <<File("README.md", 1200), File("index.js", 500), Dir("utils")>>)
            @@ ("utils" :> <<File("helper.js", 500)>>),
     files |-> ("README.md" :> Blob(1200, <<Rep("#", 1), Rep("r", 1199)>>))
            @@ ("index.js" :> Blob(500, <<Rep("i", 500)>>))
            @@ ("utils/helper.js" :> Blob(500, <<Rep("h", 500)>>))]

\* files around the size ceilings and the content cap
RepoSizes ==
    [meta  |-> Meta("sizes", "JavaScript"),
     dirs  |-> ("" :> <<File("big.js", 250000), File("empty.js", 0),
                        File("huge.js", 300001), File("lim.js", 300000),
                        File("notes.txt", 100), File("package.json", 300),
                        Dir("src"), File("tail.js", 700)>>)
            @@ ("src" :> <<File("cap.js", 200000), File("edge.js", 20000),
                           File("long.js", 25000), File("under.js", 199999)>>),
     files |-> ("big.js" :> Blob(250000, <<Rep("b", 250000)>>))
            @@ ("empty.js" :> Blob(0, <<>>))
            @@ ("huge.js" :> Blob(300001, <<Rep("h", 300001)>>))
            @@ ("lim.js" :> Blob(300000, <<Rep("l", 300000)>>))
            @@ ("notes.txt" :> Blob(100, <<Rep("n", 100)>>))
            @@ ("package.json" :> Blob(300, <<Rep("{", 1), Rep("p", 298), Rep("}", 1)>>))
            @@ ("tail.js" :> Blob(700, <<Rep("t", 700)>>))
            @@ ("src/cap.js" :> Blob(200000, <<Rep("c", 200000)>>))
            @@ ("src/edge.js" :> Blob(20000, <<Rep("e", 20000)>>))
            @@ ("src/long.js" :> Blob(25000, <<Rep("x", 19999), Rep("y", 2), Rep("z", 4999)>>))
            @@ ("src/under.js" :> Blob(199999, <<Rep("u", 199999)>>))]

\* hidden, skipped, conventional and unconventional directories
RepoDirs ==
    [meta  |-> Meta("dirs", "TypeScript"),
     dirs  |-> ("" :> <<Dir(".github"), File("Dockerfile", 200), Dir("docs"),
                        [name |-> "latest", type |-> "symlink", size |-> 4],
                        Dir("node_modules"), Dir("src")>>)
            @@ (".github" :> <<File("ci.js", 50)>>)
            @@ ("docs" :> <<File("docs.md", 100), Dir("extra"), File("guide.md", 900)>>)
            @@ ("docs/extra" :> <<File("more.js", 60)>>)
            @@ ("node_modules" :> <<File("dep.js", 70)>>)
            @@ ("src" :> <<Dir("Lib"), File("server.ts", 800)>>)
            @@ ("src/Lib" :> <<File("router.py", 400)>>),
     files |-> ("Dockerfile" :> Blob(200, <<Rep("F", 200)>>))
            @@ (".github/ci.js" :> Blob(50, <<Rep("c", 50)>>))
            @@ ("docs/docs.md" :> Blob(100, <<Rep("d", 100)>>))
            @@ ("docs/guide.md" :> Blob(900, <<Rep("g", 900)>>))
            @@ ("docs/extra/more.js" :> Blob(60, <<Rep("m", 60)>>))
            @@ ("node_modules/dep.js" :> Blob(70, <<Rep("n", 70)>>))
            @@ ("src/server.ts" :> Blob(800, <<Rep("s", 800)>>))
            @@ ("src/Lib/router.py" :> Blob(400, <<Rep("r", 400)>>))]

\* the k-th smallest element of a set of numbers
Nth(S, k) == CHOOSE b \in S : Cardinality({c \in S : c < b}) = k - 1

\* the runs of a string
Runs(s) ==
    LET B == {i \in 1..Len(s) : i = 1 \/ CharAt(s, i) # CharAt(s, i - 1)}
        EndOf(k) == IF k = Cardinality(B) THEN Len(s) + 1 ELSE Nth(B, k + 1)
    IN [k \in 1..Cardinality(B) |-> Rep(CharAt(s, Nth(B, k)), EndOf(k) - Nth(B, k))]

\* a file of the API whose reported size is the length of its text
Sized(runs) == Blob(RunsLen(runs), runs)

\* 61 source files in the root, then a directory; four have entry-point
\* names, the 30th is longer than the content cap, the 46th has a name of
\* the importance list of the search, the 50th is the largest
Digits == "0123456789"
WideName(i) ==
    CASE i = 7  -> "router.js"
      [] i = 30 -> "main.js"
      [] i = 45 -> "index.js"
      [] i = 46 -> "config.js"
      [] i = 61 -> "server.js"
      [] OTHER  -> "f" \o CharAt(Digits, (i \div 10) + 1) \o CharAt(Digits, (i % 10) + 1) \o ".js"
WideText(i) ==
    CASE i = 30 -> <<Rep("x", 20500), Rep("\n", 1)>> \o Runs("// needle: entry point")
      [] i = 50 -> Runs("let needle = 1;\n") \o <<Rep("y", 4000)>>
      [] OTHER  -> <<Rep("a", 100 + ((i * 37) % 20))>>
RepoWide ==
    [meta  |-> Meta("wide", "JavaScript"),
     dirs  |-> ("" :> ([i \in 1..61 |-> File(WideName(i), RunsLen(WideText(i)))]
                         \o <<Dir("src")>>))
            @@ ("src" :> <<File("late.js", 40)>>),
     files |-> [p \in {WideName(i) : i \in 1..61} |->
                   Sized(WideText(CHOOSE i \in 1..61 : WideName(i) = p))]
            @@ ("src/late.js" :> Sized(<<Rep("l", 40)>>))]

\* allowlisted directories nested five deep, a source file in each
RepoDeep ==
    [meta  |-> Meta("deep", "JavaScript"),
     dirs  |-> ("" :> <<Dir("src"), File("top.js", 10)>>)
            @@ ("src" :> <<File("a.js", 11), Dir("lib")>>)
            @@ ("src/lib" :> <<File("b.js", 12), Dir("app")>>)
            @@ ("src/lib/app" :> <<File("c.js", 13), Dir("utils")>>)
            @@ ("src/lib/app/utils" :>
                   <<Dir("config"), File("d.js", 14), File("package.json", 15)>>)
            @@ ("src/lib/app/utils/config" :> <<File("e.js", 16)>>),
     files |-> ("top.js" :> Sized(<<Rep("t", 10)>>))
            @@ ("src/a.js" :> Sized(<<Rep("a", 11)>>))
            @@ ("src/lib/b.js" :> Sized(<<Rep("b", 12)>>))
            @@ ("src/lib/app/c.js" :> Sized(<<Rep("c", 13)>>))
            @@ ("src/lib/app/utils/d.js" :> Sized(<<Rep("d", 14)>>))
            @@ ("src/lib/app/utils/package.json" :> Sized(<<Rep("p", 15)>>))
            @@ ("src/lib/app/utils/config/e.js" :> Sized(<<Rep("e", 16)>>))]

\* hidden, denylisted, allowlisted and other directories at depths 0, 1 and 2
RepoPolicy ==
    [meta  |-> Meta("policy", "JavaScript"),
     dirs  |-> ("" :> <<Dir(".git"), Dir(".vscode"), Dir("Build"), Dir("build"),
                        Dir("misc"), Dir("src"), Dir("vendor")>>)
            @@ (".git" :> <<File("hook.js", 20)>>)
            @@ (".vscode" :> <<File("settings.js", 21)>>)
            @@ ("Build" :> <<File("out.js", 22)>>)
            @@ ("build" :> <<File("bundle.js", 23)>>)
            @@ ("vendor" :> <<File("dep.js", 24), Dir("src")>>)
            @@ ("vendor/src" :> <<File("v.js", 25)>>)
            @@ ("misc" :> <<Dir("lib"), File("misc.js", 26), Dir("other")>>)
            @@ ("misc/lib" :> <<File("l.js", 27)>>)
            @@ ("misc/other" :> <<File("o.js", 28)>>)
            @@ ("src" :> <<Dir(".cache"), Dir("Components"), Dir("dist"),
                           Dir("extras"), Dir("utils")>>)
            @@ ("src/.cache" :> <<File("k.js", 29)>>)
            @@ ("src/Components" :> <<File("Button.jsx", 30)>>)
            @@ ("src/dist" :> <<File("min.js", 31)>>)
            @@ ("src/extras" :> <<File("x.js", 32)>>)
            @@ ("src/utils" :> <<Dir("__pycache__"), Dir("models"), Dir("node_modules"),
                                 Dir("target"), Dir("tests"), File("u.js", 33)>>)
            @@ ("src/utils/__pycache__" :> <<File("pc.py", 34)>>)
            @@ ("src/utils/models" :> <<File("m.js", 35)>>)
            @@ ("src/utils/node_modules" :> <<File("nm.js", 36)>>)
            @@ ("src/utils/target" :> <<File("tg.rs", 37)>>)
            @@ ("src/utils/tests" :> <<File("t.js", 38)>>),
     files |-> (".git/hook.js" :> Sized(<<Rep("a", 20)>>))
            @@ (".vscode/settings.js" :> Sized(<<Rep("a", 21)>>))
            @@ ("Build/out.js" :> Sized(<<Rep("a", 22)>>))
            @@ ("build/bundle.js" :> Sized(<<Rep("a", 23)>>))
            @@ ("vendor/dep.js" :> Sized(<<Rep("a", 24)>>))
            @@ ("vendor/src/v.js" :> Sized(<<Rep("a", 25)>>))
            @@ ("misc/misc.js" :> Sized(<<Rep("a", 26)>>))
            @@ ("misc/lib/l.js" :> Sized(<<Rep("a", 27)>>))
            @@ ("misc/other/o.js" :> Sized(<<Rep("a", 28)>>))
            @@ ("src/.cache/k.js" :> Sized(<<Rep("a", 29)>>))
            @@ ("src/Components/Button.jsx" :> Sized(<<Rep("a", 30)>>))
            @@ ("src/dist/min.js" :> Sized(<<Rep("a", 31)>>))
            @@ ("src/extras/x.js" :> Sized(<<Rep("a", 32)>>))
            @@ ("src/utils/u.js" :> Sized(<<Rep("a", 33)>>))
            @@ ("src/utils/__pycache__/pc.py" :> Sized(<<Rep("a", 34)>>))
            @@ ("src/utils/models/m.js" :> Sized(<<Rep("a", 35)>>))
            @@ ("src/utils/node_modules/nm.js" :> Sized(<<Rep("a", 36)>>))
            @@ ("src/utils/target/tg.rs" :> Sized(<<Rep("a", 37)>>))
            @@ ("src/utils/tests/t.js" :> Sized(<<Rep("a", 38)>>))]

\* files whose lines hold the word "todo" 5, 0, 1, 1 and 6 times
TextFiles ==
    ("Mixed.js" :> Runs("Todo\ntOdO\n\nTODO\nto do\nxtodox\ntodo"))
    @@ ("none.js" :> Runs("nothing\nto\ndo"))
    @@ ("one.js" :> Runs("let a = 1;\n\n  mastodon  "))
    @@ ("package.json" :> Runs("{\nname: todo-app\n}"))
    @@ ("six.js" :> Runs("// TODO one\nlet a = 1;\n  todo(two);  \nToDo three\nx\ntodo todo four\n// todo five\nlast TODO six"))
RepoText ==
    [meta  |-> Meta("text", "JavaScript"),
     dirs  |-> ("" :> <<File("Mixed.js", RunsLen(TextFiles["Mixed.js"])),
                        File("none.js", RunsLen(TextFiles["none.js"])),
                        File("one.js", RunsLen(TextFiles["one.js"])),
                        File("package.json", RunsLen(TextFiles["package.json"])),
                        File("six.js", RunsLen(TextFiles["six.js"]))>>),
     files |-> [p \in DOMAIN TextFiles |-> Sized(TextFiles[p])]]

\* the repositories served without failures
Steady ==
    ("demo/wide" :> RepoWide)
    @@ ("demo/deep" :> RepoDeep)
    @@ ("demo/policy" :> RepoPolicy)
    @@ ("demo/text" :> RepoText)


\* the repositories that exist, by "owner/repo"
\* a second repository of owner o: its a.js differs from that of o/r
RepoTwin ==
    [meta  |-> Meta("twin", "Python"),
     dirs  |-> [p \in {""} |-> <<File("a.js", 300)>>],
     files |-> [p \in {"a.js"} |-> Blob(300, <<Rep("z", 300)>>)]]

Remote ==
    ("o/r" :> RepoTiny)
    @@ ("o/twin" :> RepoTwin)
    @@ ("demo/e2e" :> RepoEndToEnd)
    @@ ("demo/sizes" :> RepoSizes)
    @@ ("demo/dirs" :> RepoDirs)
    @@ Steady

Failure(message) == [ok |-> FALSE, message |-> message]
Success(data) == [ok |-> TRUE, data |-> data]

NotFound == Failure("Request failed with status code 404")
NetworkError == Failure("Network Error")

\* the answers axios.get can give a task for a request, t.failed holding
\* the requests of the task that failed so far
Injected(t) ==
    IF Len(t.failed) < MaxFail /\ t.cacheKey \notin DOMAIN Steady
    THEN {NetworkError} ELSE {}

MetaAnswers(t) ==
    LET key == t.owner \o "/" \o t.repo
    IN (IF key \in DOMAIN Remote THEN {Success(Remote[key].meta)} ELSE {NotFound})
       \cup Injected(t)

DirAnswers(t, path) ==
    LET key == t.owner \o "/" \o t.repo
    IN (IF key \in DOMAIN Remote /\ path \in DOMAIN Remote[key].dirs
        THEN {Success(Remote[key].dirs[path])} ELSE {NotFound})
       \cup Injected(t)

FileAnswers(t, path) ==
    LET key == t.owner \o "/" \o t.repo
    IN (IF key \in DOMAIN Remote /\ path \in DOMAIN Remote[key].files
        THEN {Success(Remote[key].files[path])} ELSE {NotFound})
       \cup Injected(t)

-----------------------------------------------------------------------------
(* Content Fetcher.                                                        *)

\* mutant: no size ceiling
getFileContentAnySize(answer) ==
    IF answer.ok /\ answer.data.type = "file"
    THEN Text(answer.data.content)
    ELSE Null

\* getFileContent, given the answer to its axios.get
getFileContent(answer) ==
    IF answer.ok /\ answer.data.type = "file" /\ answer.data.size < FileSizeLimit
    THEN Text(answer.data.content)
    ELSE Null

\* getDirectoryContents, given the answer to its axios.get
getDirectoryContents(answer) ==
    IF answer.ok THEN answer.data ELSE <<>>

-----------------------------------------------------------------------------
(* Repository Walker.  A task t runs getRepositoryCode; t.stack holds the  *)
(* activations of processDirectory, innermost first, each                  *)
(* [contents, currentPath, depth, i, stage]: i is the position of the loop *)
(* in contents.slice(0, 60), stage 0 is before the config/doc test of the  *)
(* item and stage 1 before its source-code test.  t.pending is the request *)
(* the task awaits, Null when it awaits none.                              *)

Frame(contents, currentPath, depth) ==
    [contents |-> contents, currentPath |-> currentPath, depth |-> depth,
     i |-> 1, stage |-> 0]

FileFetch(for, item, path) ==
    [kind |-> "file", for |-> for, path |-> path, name |-> item.name,
     size |-> item.size]
DirFetch(path) == [kind |-> "dir", path |-> path]
MetaFetch == [kind |-> "meta", path |-> ""]
LlmPost == [kind |-> "llm", path |-> ""]

\* mutant: content is not truncated
CodeFileServiceWhole(p, content) ==
    [path |-> p.path, name |-> p.name, content |-> content,
     language |-> getLanguageFromExtension(ToLowerCase(p.name)),
     size |-> p.size, fullContent |-> content]

\* githubService.js: { path, name, content, language, size, fullContent }
CodeFileService(p, content) ==
    [path |-> p.path, name |-> p.name,
     content |-> substring(content, CodeContentCap),
     language |-> getLanguageFromExtension(ToLowerCase(p.name)),
     size |-> p.size, fullContent |-> content]

\* server.js: { path, name, content, language, size }
CodeFileServer(p, content) ==
    [path |-> p.path, name |-> p.name,
     content |-> substring(content, CodeContentCap),
     language |-> getLanguageFromExtension(ToLowerCase(p.name)),
     size |-> p.size]

CodeFile(variant, p, content) ==
    IF variant = "service" THEN CodeFileService(p, content)
    ELSE CodeFileServer(p, content)

ImportantFile(p, content) ==
    [path |-> p.path, name |-> p.name,
     content |-> substring(content, ImportantContentCap), type |-> "config"]

\* the loop moves to the next item of the innermost activation
NextItem(t) ==
    [t EXCEPT !.stack = <<[Head(@) EXCEPT !.i = @ + 1, !.stage = 0]>> \o Tail(@)]

ToCodeTest(t) ==
    [t EXCEPT !.stack = <<[Head(@) EXCEPT !.stage = 1]>> \o Tail(@)]

\* the innermost activation returns; its caller's loop moves on
ReturnFrom(t) ==
    IF Len(t.stack) = 1 THEN [t EXCEPT !.stack = <<>>]
    ELSE NextItem([t EXCEPT !.stack = Tail(@)])

\* the task issues the request and is suspended until its answer
Await(t, fetch) ==
    [t EXCEPT !.pending = fetch, !.pc = fetch.kind, !.calls = Append(@, fetch)]

\* processDirectory, run from where the task stands to its next await, or
\* to the return of the outermost activation
RECURSIVE processDirectory(_)
processDirectory(t) ==
    IF t.stack = <<>> THEN [t EXCEPT !.pending = Null]
    ELSE
    LET f == Head(t.stack)
        items == slice(f.contents, MaxEntries)
    IN  IF f.depth > MaxDepth THEN processDirectory(ReturnFrom(t))
        ELSE IF f.i > Len(items) THEN processDirectory(ReturnFrom(t))
        ELSE
        LET item == items[f.i]
            fileName == ToLowerCase(item.name)
            filePath == JoinPath(f.currentPath, item.name)
        IN  IF item.type = "file"
            THEN IF f.stage = 0
                 THEN IF IsImportantCandidate(fileName)
                      THEN Await(t, FileFetch("important", item, filePath))
                      ELSE processDirectory(ToCodeTest(t))
                 ELSE IF IsCodeCandidate(fileName, item.size)
                      THEN Await(t, FileFetch("code", item, filePath))
                      ELSE processDirectory(NextItem(t))
            ELSE IF IsAdmittedDir(item) /\ IsTraversed(item, f.depth)
                 THEN Await(t, DirFetch(filePath))
                 ELSE processDirectory(NextItem(t))

\* mutant: an absent content ends the activation (`if (!content) return`)
AfterFileReturn(t, content) ==
    IF ~Truthy(content) THEN ReturnFrom(t)
    ELSE IF t.pending.for = "important"
    THEN ToCodeTest([t EXCEPT !.importantFiles = Append(@, ImportantFile(t.pending, content))])
    ELSE NextItem([t EXCEPT !.codeFiles = Append(@, CodeFile(t.variant, t.pending, content))])

\* the continuation of `const content = await getFileContent(...)`
AfterFile(t, content) ==
    IF t.pending.for = "important"
    THEN ToCodeTest(
           IF Truthy(content)
           THEN [t EXCEPT !.importantFiles = Append(@, ImportantFile(t.pending, content))]
           ELSE t)
    ELSE NextItem(
           IF Truthy(content)
           THEN [t EXCEPT !.codeFiles = Append(@, CodeFile(t.variant, t.pending, content))]
           ELSE t)

\* mutant: the depth is passed on as it is
AfterDirSameDepth(t, dirContents) ==
    [t EXCEPT !.stack =
        <<Frame(dirContents, t.pending.path,
                IF t.stack = <<>> THEN 0 ELSE Head(t.stack).depth)>> \o @]

\* mutant: the walk of the sub-directory is put off (not awaited) and the
\* loop of the caller goes on
AfterDirDeferred(t, dirContents) ==
    IF t.stack = <<>>
    THEN [t EXCEPT !.stack = <<Frame(dirContents, t.pending.path, 0)>>]
    ELSE [t EXCEPT !.stack =
            <<[Head(@) EXCEPT !.i = @ + 1, !.stage = 0]>> \o Tail(@)
               \o <<Frame(dirContents, t.pending.path, Head(@).depth + 1)>>]

\* the continuation of `await getDirectoryContents(...)`: processDirectory
\* is entered one level down (at depth 0 for the root listing)
AfterDir(t, dirContents) ==
    [t EXCEPT !.stack =
        <<Frame(dirContents, t.pending.path,
                IF t.stack = <<>> THEN 0 ELSE Head(t.stack).depth + 1)>> \o @]

-----------------------------------------------------------------------------
(* File Prioritizer: codeFiles.sort(comparator), a stable sort.            *)

\* priority.findIndex(p => name.toLowerCase().includes(p)), 0-based, -1 if none
PriorityOf(name) ==
    LET lower == ToLowerCase(name)
        M == {i \in 1..Len(priority) : Includes(lower, priority[i])}
    IN IF M = {} THEN -1 ELSE (CHOOSE i \in M : \A j \in M : i <= j) - 1

\* mutant: the smaller file first, whatever the names
ComparatorBySize(a, b) == a.size - b.size

Comparator(a, b) ==
    LET aPriority == PriorityOf(a.name)
        bPriority == PriorityOf(b.name)
    IN IF aPriority # -1 /\ bPriority # -1 THEN aPriority - bPriority
       ELSE IF aPriority # -1 THEN -1
       ELSE IF bPriority # -1 THEN 1
       ELSE a.size - b.size

\* x is put before the least position of P, or at the end when P is empty
InsertBefore(sorted, P, x) ==
    IF P = {} THEN Append(sorted, x)
    ELSE LET k == CHOOSE i \in P : \A j \in P : i <= j
         IN SubSeq(sorted, 1, k - 1) \o <<x>> \o SubSeq(sorted, k, Len(sorted))

\* mutant: x goes before the elements it compares equal to
InsertBeforeEqual(sorted, x) ==
    InsertBefore(sorted, {k \in 1..Len(sorted) : Comparator(sorted[k], x) >= 0}, x)

\* x goes behind every element that does not compare greater than it:
\* before the first element that compares greater
InsertStable(sorted, x) ==
    InsertBefore(sorted, {k \in 1..Len(sorted) : Comparator(sorted[k], x) > 0}, x)

\* files[lo..hi] inserted into sorted one after the other, in their order
RECURSIVE InsertFiles(_, _, _, _)
InsertFiles(sorted, files, lo, hi) ==
    IF lo > hi THEN sorted
    ELSE IF lo = hi THEN InsertStable(sorted, files[lo])
    ELSE LET mid == (lo + hi) \div 2
             first == InsertFiles(sorted, files, lo, mid)
         IN IF Len(first) >= 0 THEN InsertFiles(first, files, mid + 1, hi) ELSE first

SortFiles(files) == InsertFiles(<<>>, files, 1, Len(files))

RepoInfoOf(repoInfo) ==
    [name |-> repoInfo.name, description |-> repoInfo.description,
     language |-> repoInfo.language, stars |-> repoInfo.stargazers_count,
     forks |-> repoInfo.forks_count, topics |-> repoInfo.topics,
     homepage |-> repoInfo.homepage]

\* mutant: every collected code file is returned
SnapshotServiceUncapped(t) ==
    LET codeFiles == SortFiles(t.codeFiles)
    IN [repoInfo |-> RepoInfoOf(t.repoInfo),
        codeFiles |-> codeFiles,
        importantFiles |-> t.importantFiles,
        totalFiles |-> Len(codeFiles) + Len(t.importantFiles),
        allFiles |-> codeFiles \o t.importantFiles]

\* mutant: allFiles is built from the capped list
SnapshotServiceCappedAll(t) ==
    LET codeFiles == SortFiles(t.codeFiles)
    IN [repoInfo |-> RepoInfoOf(t.repoInfo),
        codeFiles |-> slice(codeFiles, MaxCodeFiles),
        importantFiles |-> t.importantFiles,
        totalFiles |-> Len(codeFiles) + Len(t.importantFiles),
        allFiles |-> slice(codeFiles, MaxCodeFiles) \o t.importantFiles]

\* the value getRepositoryCode returns, githubService.js
SnapshotService(t) ==
    LET codeFiles == SortFiles(t.codeFiles)
    IN [repoInfo |-> RepoInfoOf(t.repoInfo),
        codeFiles |-> slice(codeFiles, MaxCodeFiles),
        importantFiles |-> t.importantFiles,
        totalFiles |-> Len(codeFiles) + Len(t.importantFiles),
        allFiles |-> codeFiles \o t.importantFiles]

\* the value getRepositoryCode returns, server.js
SnapshotServer(t) ==
    LET codeFiles == SortFiles(t.codeFiles)
    IN [repoInfo |-> RepoInfoOf(t.repoInfo),
        codeFiles |-> slice(codeFiles, MaxCodeFiles),
        importantFiles |-> t.importantFiles,
        totalFiles |-> Len(codeFiles) + Len(t.importantFiles)]

Snapshot(t) ==
    IF t.variant = "service" THEN SnapshotService(t) ELSE SnapshotServer(t)

\* mutant: the cause is rethrown as it is
IngestionErrorBare(message) == message

\* throw new Error(`Failed to analyze repository: ${error.message}`)
IngestionError(message) == "Failed to analyze repository: " \o message

-----------------------------------------------------------------------------
(* Search over a snapshot: searchInFiles, getContextLines, isImportantFile. *)
(* A line is a sequence of runs, like a text.                              *)

MinQueryLength == 2             \* query.trim().length < 2
ContextSize == 2                \* getContextLines(lines, lineIndex, 2)
MaxLineMatches == 5             \* matches.slice(0, 5)
MaxFileResults == 10            \* results.slice(0, 10)

WhiteSpace == {" ", "\t", "\n", "\r"}

\* s.trim()
RECURSIVE TrimStart(_)
TrimStart(s) ==
    IF Len(s) > 0 /\ CharAt(s, 1) \in WhiteSpace THEN TrimStart(SubSeq(s, 2, Len(s))) ELSE s
RECURSIVE TrimEnd(_)
TrimEnd(s) ==
    IF Len(s) > 0 /\ CharAt(s, Len(s)) \in WhiteSpace
    THEN TrimEnd(SubSeq(s, 1, Len(s) - 1)) ELSE s
Trim(s) == TrimEnd(TrimStart(s))

\* line.trim()
RECURSIVE TrimRunsStart(_)
TrimRunsStart(runs) ==
    IF runs # <<>> /\ Head(runs).ch \in WhiteSpace THEN TrimRunsStart(Tail(runs)) ELSE runs
RECURSIVE TrimRunsEnd(_)
TrimRunsEnd(runs) ==
    IF runs # <<>> /\ runs[Len(runs)].ch \in WhiteSpace
    THEN TrimRunsEnd(SubSeq(runs, 1, Len(runs) - 1)) ELSE runs
TrimRuns(runs) == TrimRunsEnd(TrimRunsStart(runs))

\* adjacent runs of one character are one run
Normalize(runs) ==
    LET B == {i \in 1..Len(runs) : i = 1 \/ runs[i].ch # runs[i - 1].ch}
        EndOf(k) == IF k = Cardinality(B) THEN Len(runs) + 1 ELSE Nth(B, k + 1)
    IN [k \in 1..Cardinality(B) |->
           Rep(runs[Nth(B, k)].ch, RunsSum(runs, Nth(B, k), EndOf(k) - 1))]

\* line.toLowerCase()
LowerRuns(runs) ==
    Normalize([i \in 1..Len(runs) |-> Rep(LowerChar(runs[i].ch), runs[i].n)])

\* content.split('\n'): a run of k '\n' ends a line and is followed by
\* k - 1 empty lines
SplitLines(runs) ==
    LET N == {i \in 1..Len(runs) : runs[i].ch = "\n"}
        LineOf(i) == 1 + RunsSum([j \in 1..Len(runs) |->
                                     IF j \in N THEN runs[j] ELSE Rep("\n", 0)], 1, i - 1)
        Count == LineOf(Len(runs) + 1)
    IN [l \in 1..Count |->
           LET R == {i \in 1..Len(runs) : i \notin N /\ LineOf(i) = l}
           IN [k \in 1..Cardinality(R) |-> runs[Nth(R, k)]]]

\* the number of characters before run i
OffsetOf(runs, i) == RunsSum(runs, 1, i - 1)

\* pattern occurs in text with its first character in run i
OccursAt(text, pattern, i) ==
    LET m == Len(pattern)
    IN /\ i + m - 1 <= Len(text)
       /\ text[i].ch = pattern[1].ch
       /\ text[i].n >= pattern[1].n
       /\ m >= 2 => /\ \A k \in 2..(m - 1) : text[i + k - 1] = pattern[k]
                    /\ text[i + m - 1].ch = pattern[m].ch
                    /\ text[i + m - 1].n >= pattern[m].n

\* text.indexOf(pattern), 0-based, -1 when there is no occurrence
IndexOf(text, pattern) ==
    LET P == {i \in 1..Len(text) : OccursAt(text, pattern, i)}
    IN IF P = {} THEN -1
       ELSE LET i == CHOOSE j \in P : \A k \in P : j <= k
            IN IF Len(pattern) = 1 THEN OffsetOf(text, i)
               ELSE OffsetOf(text, i) + text[i].n - pattern[1].n

\* lowerLine.includes(searchQuery)
LineIncludes(line, searchQuery) == IndexOf(LowerRuns(line), Runs(searchQuery)) # -1

\* getContextLines(lines, centerIndex, contextSize), centerIndex 0-based
getContextLines(lines, centerIndex, contextSize) ==
    LET start == Max(0, centerIndex - contextSize)
        end == Min(Len(lines), centerIndex + contextSize + 1)
    IN [k \in 1..(end - start) |->
           [lineNumber |-> start + k, content |-> Text(lines[start + k]),
            isMatch |-> start + k - 1 = centerIndex]]

importantNames ==
    <<"index.js", "main.js", "app.js", "server.js", "package.json", "readme.md",
      "config.js">>

isImportantFile(fileName) ==
    \E i \in 1..Len(importantNames) :
       Includes(ToLowerCase(fileName), ToLowerCase(importantNames[i]))

\* file.fullContent || file.content
SearchedContent(file) ==
    IF "fullContent" \in DOMAIN file /\ Truthy(file.fullContent)
    THEN file.fullContent ELSE file.content

\* the match record of line lineIndex (1-based here) of lines
LineMatch(lines, lineIndex, searchQuery) ==
    [lineNumber |-> lineIndex,
     line |-> Text(TrimRuns(lines[lineIndex])),
     context |-> getContextLines(lines, lineIndex - 1, ContextSize),
     matchStart |-> Max(0, IndexOf(LowerRuns(lines[lineIndex]), Runs(searchQuery))),
     matchLength |-> Len(searchQuery)]

\* the matches of the first k lines, in line order
RECURSIVE MatchesUpTo(_, _, _)
MatchesUpTo(lines, k, searchQuery) ==
    IF k = 0 THEN <<>>
    ELSE MatchesUpTo(lines, k - 1, searchQuery)
            \o (IF LineIncludes(lines[k], searchQuery)
                THEN <<LineMatch(lines, k, searchQuery)>> ELSE <<>>)

FileMatches(file, searchQuery) ==
    LET lines == SplitLines(SearchedContent(file).text)
    IN MatchesUpTo(lines, Len(lines), searchQuery)

\* mutant: every match of the file is kept
FileResultUncut(file, matches) ==
    [file |-> [path |-> file.path, name |-> file.name,
               language |-> IF "language" \in DOMAIN file /\ file.language # ""
                            THEN file.language ELSE "text",
               size |-> IF "size" \in DOMAIN file THEN file.size ELSE Null],
     matches |-> matches,
     totalMatches |-> Len(matches)]

\* results.push({ file: {...}, matches: matches.slice(0, 5), totalMatches })
FileResult(file, matches) ==
    [file |-> [path |-> file.path, name |-> file.name,
               language |-> IF "language" \in DOMAIN file /\ file.language # ""
                            THEN file.language ELSE "text",
               size |-> IF "size" \in DOMAIN file THEN file.size ELSE Null],
     matches |-> slice(matches, MaxLineMatches),
     totalMatches |-> Len(matches)]

\* the results of files lo..hi in file order, and the matches counted in them
RECURSIVE ResultsOf(_, _, _, _)
ResultsOf(allFiles, lo, hi, searchQuery) ==
    IF lo > hi THEN [results |-> <<>>, totalMatches |-> 0]
    ELSE IF lo = hi
    THEN LET matches == FileMatches(allFiles[lo], searchQuery)
         IN [results |-> IF Len(matches) > 0
                         THEN <<FileResult(allFiles[lo], matches)>> ELSE <<>>,
             totalMatches |-> Len(matches)]
    ELSE LET mid == (lo + hi) \div 2
             first == ResultsOf(allFiles, lo, mid, searchQuery)
             rest == ResultsOf(allFiles, mid + 1, hi, searchQuery)
         IN [results |-> first.results \o rest.results,
             totalMatches |-> first.totalMatches + rest.totalMatches]

\* the comparator of results.sort
\* mutant: the match counts alone decide
ResultComparatorByCount(a, b) == b.totalMatches - a.totalMatches

ResultComparator(a, b) ==
    LET aImportant == isImportantFile(a.file.name)
        bImportant == isImportantFile(b.file.name)
    IN IF aImportant /\ ~bImportant THEN -1
       ELSE IF ~aImportant /\ bImportant THEN 1
       ELSE b.totalMatches - a.totalMatches

InsertResult(sorted, x) ==
    InsertBefore(sorted, {k \in 1..Len(sorted) : ResultComparator(sorted[k], x) > 0}, x)

\* results[lo..hi] inserted into sorted one after the other, in their order
RECURSIVE InsertResults(_, _, _, _)
InsertResults(sorted, results, lo, hi) ==
    IF lo > hi THEN sorted
    ELSE IF lo = hi THEN InsertResult(sorted, results[lo])
    ELSE LET mid == (lo + hi) \div 2
             first == InsertResults(sorted, results, lo, mid)
         IN IF Len(first) >= 0 THEN InsertResults(first, results, mid + 1, hi) ELSE first

SortResults(results) == InsertResults(<<>>, results, 1, Len(results))

\* if (!query || query.trim().length < 2)
IsRejectedQuery(query) ==
    \/ query = Null
    \/ query.str = ""
    \/ Len(Trim(query.str)) < MinQueryLength

\* a query that is a string; a missing query is Null
Str(s) == [str |-> s]

\* mutant: only a missing query is rejected
searchInFilesAnyLength(repoData, query) ==
    IF query = Null \/ query.str = ""
    THEN [results |-> <<>>, totalMatches |-> 0]
    ELSE LET searchQuery == Trim(ToLowerCase(query.str))
             allFiles == repoData.codeFiles \o repoData.importantFiles
             found == ResultsOf(allFiles, 1, Len(allFiles), searchQuery)
         IN [results |-> slice(SortResults(found.results), MaxFileResults),
             totalMatches |-> found.totalMatches,
             query |-> searchQuery]

searchInFiles(repoData, query) ==
    IF IsRejectedQuery(query)
    THEN [results |-> <<>>, totalMatches |-> 0]
    ELSE LET searchQuery == Trim(ToLowerCase(query.str))
             allFiles == repoData.codeFiles \o repoData.importantFiles
             found == ResultsOf(allFiles, 1, Len(allFiles), searchQuery)
         IN [results |-> slice(SortResults(found.results), MaxFileResults),
             totalMatches |-> found.totalMatches,
             query |-> searchQuery]

-----------------------------------------------------------------------------
(* Request handlers of server.js, and direct calls of                      *)
(* githubService.getRepositoryCode.  A task is at pc "meta", "dir", "file" *)
(* or "llm" while it awaits that answer and at "done" once it has          *)
(* responded (or, for a direct call, returned or thrown).  The code that   *)
(* runs between two awaits runs in one step: the runtime is single         *)
(* threaded, and a continuation chained on a resolved promise runs before  *)
(* any other request's network callback.                                   *)

MaxInFlight == 2    \* requests the server handles at a time
Slots == 1..MaxInFlight

NewTask(handler, variant, url, question) ==
    [handler |-> handler, variant |-> variant, url |-> url, question |-> question,
     owner |-> "", repo |-> "", cacheKey |-> "", pc |-> "start", pending |-> Null,
     repoInfo |-> Null, stack |-> <<>>, codeFiles |-> <<>>, importantFiles |-> <<>>,
     failed |-> <<>>, calls |-> <<>>, repoData |-> Null, hit |-> FALSE,
     response |-> Null]

\* the task ends with a response: res.status(status).json(body) in a
\* handler, [returned |-> value] or [thrown |-> message] for a direct call
Ends(t, response) ==
    [t EXCEPT !.pc = "done", !.pending = Null, !.response = response]

Respond(t, status, body) == Ends(t, [status |-> status, body |-> body])

CacheKey(repoInfo) == repoInfo.owner \o "/" \o repoInfo.repo

\* repoCache.has(key), repoCache.get(key)
CacheHas(key) == key \in DOMAIN repoCache
CacheGet(key) == IF key \in DOMAIN repoCache THEN repoCache[key] ELSE Null

\* getRepositoryCode up to its first await
getRepositoryCode(t) == Await(t, MetaFetch)

\* chatWithRepo up to its await of the language model
chatWithRepo(t) ==
    IF ~geminiKey THEN Respond(t, 500, [error |-> "Gemini API key not configured"])
    ELSE Await(t, LlmPost)

Identified(t, repoInfo) ==
    [t EXCEPT !.owner = repoInfo.owner, !.repo = repoInfo.repo,
              !.cacheKey = CacheKey(repoInfo)]

AnalyzeBody(repoData) ==
    [success |-> TRUE, repoInfo |-> repoData.repoInfo,
     filesAnalyzed |-> repoData.totalFiles]

\* mutant: the identity is used without the null test, and the TypeError
\* is answered by the catch block
AnalyzeUnchecked(t) ==
    IF t.url = "" THEN Respond(t, 400, [error |-> "Repository URL is required"])
    ELSE LET repoInfo == extractRepoInfo(t.url)
         IN IF repoInfo = Null
            THEN Respond(t, 500, [error |-> "Cannot read properties of null (reading 'owner')"])
            ELSE LET t1 == Identified(t, repoInfo)
                 IN IF CacheHas(t1.cacheKey)
                    THEN LET cachedData == CacheGet(t1.cacheKey)
                         IN Respond([t1 EXCEPT !.repoData = cachedData, !.hit = TRUE],
                                    200, AnalyzeBody(cachedData))
                    ELSE getRepositoryCode(t1)

\* app.post('/api/analyze') up to its first await
Analyze(t) ==
    IF t.url = "" THEN Respond(t, 400, [error |-> "Repository URL is required"])
    ELSE LET repoInfo == extractRepoInfo(t.url)
         IN IF repoInfo = Null
            THEN Respond(t, 400, [error |-> "Invalid GitHub repository URL"])
            ELSE LET t1 == Identified(t, repoInfo)
                 IN IF CacheHas(t1.cacheKey)
                    THEN LET cachedData == CacheGet(t1.cacheKey)
                         IN Respond([t1 EXCEPT !.repoData = cachedData, !.hit = TRUE],
                                    200, AnalyzeBody(cachedData))
                    ELSE getRepositoryCode(t1)

\* mutant: the chat handler analyzes afresh without looking in the cache
ChatAlwaysFresh(t) ==
    IF t.url = "" \/ t.question = ""
    THEN Respond(t, 400, [error |-> "Repository URL and question are required"])
    ELSE LET repoInfo == extractRepoInfo(t.url)
         IN IF repoInfo = Null
            THEN Respond(t, 400, [error |-> "Invalid GitHub repository URL"])
            ELSE getRepositoryCode(Identified(t, repoInfo))

\* app.post('/api/chat') up to its first await
Chat(t) ==
    IF t.url = "" \/ t.question = ""
    THEN Respond(t, 400, [error |-> "Repository URL and question are required"])
    ELSE LET repoInfo == extractRepoInfo(t.url)
         IN IF repoInfo = Null
            THEN Respond(t, 400, [error |-> "Invalid GitHub repository URL"])
            ELSE LET t1 == Identified(t, repoInfo)
                     repoData == CacheGet(t1.cacheKey)
                 IN IF repoData = Null
                    THEN getRepositoryCode(t1)
                    ELSE chatWithRepo([t1 EXCEPT !.repoData = repoData, !.hit = TRUE])

\* mutant: an entry already stored is kept (first write wins)
CacheSetIfAbsent(cache, key, repoData) ==
    IF key \in DOMAIN cache THEN cache ELSE (key :> repoData) @@ cache

\* repoCache.set(key, repoData)
CacheSet(cache, key, repoData) == (key :> repoData) @@ cache

Recorded(t, repoData) ==
    (t.cacheKey :>
        [first |-> IF t.cacheKey \in DOMAIN puts THEN puts[t.cacheKey].first
                   ELSE repoData,
         latest |-> repoData, calls |-> t.calls]) @@ puts

\* the handler's continuation once getRepositoryCode has returned repoData:
\* the task, the cache and the history afterwards
\* mutant: the chat path does not store the snapshot it ingested
ReturnedChatNotStored(t) ==
    LET repoData == Snapshot(t)
        t1 == [t EXCEPT !.repoData = repoData, !.pending = Null]
        cache == CacheSet(repoCache, t.cacheKey, repoData)
        hist == Recorded(t, repoData)
    IN IF t.handler = "analyze"
       THEN [task |-> Respond(t1, 200, AnalyzeBody(repoData)), cache |-> cache, puts |-> hist]
       ELSE IF t.handler = "chat"
       THEN [task |-> chatWithRepo(t1), cache |-> repoCache, puts |-> puts]
       ELSE [task |-> Ends(t1, [returned |-> repoData]), cache |-> repoCache, puts |-> puts]

\* mutant: the cache key is shared by the requests, and holds the key of
\* the request that ended last
ReturnedUnderSharedKey(t) ==
    LET repoData == Snapshot(t)
        t1 == [t EXCEPT !.repoData = repoData, !.pending = Null]
        key == IF last # Null /\ last.cacheKey # "" THEN last.cacheKey ELSE t.cacheKey
        cache == CacheSet(repoCache, key, repoData)
        hist == Recorded(t, repoData)
    IN IF t.handler = "analyze"
       THEN [task |-> Respond(t1, 200, AnalyzeBody(repoData)), cache |-> cache, puts |-> hist]
       ELSE IF t.handler = "chat"
       THEN [task |-> chatWithRepo(t1), cache |-> cache, puts |-> hist]
       ELSE [task |-> Ends(t1, [returned |-> repoData]), cache |-> repoCache, puts |-> puts]

Returned(t) ==
    LET repoData == Snapshot(t)
        t1 == [t EXCEPT !.repoData = repoData, !.pending = Null]
        cache == CacheSet(repoCache, t.cacheKey, repoData)
        hist == Recorded(t, repoData)
    IN IF t.handler = "analyze"
       THEN [task |-> Respond(t1, 200, AnalyzeBody(repoData)), cache |-> cache, puts |-> hist]
       ELSE IF t.handler = "chat"
       THEN [task |-> chatWithRepo(t1), cache |-> cache, puts |-> hist]
       ELSE [task |-> Ends(t1, [returned |-> repoData]), cache |-> repoCache, puts |-> puts]

\* mutant: the catch block logs the error and sends nothing
ThrownUnanswered(t, message) == [t EXCEPT !.pc = "hung", !.pending = Null]

\* the handler's catch block: res.status(500).json({ error: error.message })
Thrown(t, message) ==
    IF t.handler = "call" THEN Ends(t, [thrown |-> message])
    ELSE Respond(t, 500, [error |-> message])

\* a failed request of the task is noted
Counted(t, answer) ==
    IF ~answer.ok THEN [t EXCEPT !.failed = Append(@, t.pending)] ELSE t

\* task t stays in slot r while it awaits an answer and leaves it when it ends
Place(r, t) ==
    IF t.pc = "done"
    THEN /\ req' = [req EXCEPT ![r] = Null]
         /\ last' = t
    ELSE /\ req' = [req EXCEPT ![r] = t]
         /\ UNCHANGED last

\* the walk goes on to its next await, or getRepositoryCode returns
Continue(r, t) ==
    LET t1 == processDirectory(t)
    IN IF t1.pending # Null
       THEN /\ Place(r, t1)
            /\ UNCHANGED <<repoCache, puts>>
       ELSE LET out == Returned(t1)
            IN /\ Place(r, out.task)
               /\ repoCache' = out.cache
               /\ puts' = out.puts

-----------------------------------------------------------------------------
(* Inputs.                                                                 *)

\* repoUrl of a request body ("" when the field is missing)
ServerUrls == {"", "https://gitlab.com/o/r", "https://github.com/o/r"}

Questions == {"", "what does a.js do?"}

\* owner and repo of the direct calls of getRepositoryCode
CallRepos ==
    {[owner |-> "demo", repo |-> "e2e"], [owner |-> "demo", repo |-> "sizes"],
     [owner |-> "demo", repo |-> "dirs"], [owner |-> "demo", repo |-> "gone"],
     [owner |-> "o", repo |-> "r"]}

\* URLs given to extractRepoInfo: a base, then a trailing '.git', '/' or both
UrlSchemes == {"", "https://www."}
UrlOwners == {"Own-er"}
UrlRepos == {"r", "my.repo", "x-git"}
UrlSuffixes == {"", ".git", "/", ".git/"}

ValidBases ==
    {s \o "github.com/" \o o \o "/" \o r :
        s \in UrlSchemes, o \in UrlOwners, r \in UrlRepos}
InvalidBases ==
    {"https://gitlab.com/o/r", "github.com/o", "https://github.com//r", "github.com/o/"}
UrlBases == ValidBases \cup InvalidBases

NoParse == [base |-> "", suffix |-> "", url |-> "", info |-> Null]

\* owner and repo of the calls for the repositories served without failures
SteadyRepos ==
    {[owner |-> "demo", repo |-> "wide"], [owner |-> "demo", repo |-> "deep"],
     [owner |-> "demo", repo |-> "policy"], [owner |-> "demo", repo |-> "text"]}

\* the code files given to the prioritizing sort on its own, with and
\* without entry-point names; a list holds at most MaxSortLen of them
MaxSortLen == 3
SortPool ==
    {[path |-> "lib/main.js", name |-> "main.js", size |-> 100],
     [path |-> "app/MainApp.jsx", name |-> "MainApp.jsx", size |-> 250],
     [path |-> "router.js", name |-> "router.js", size |-> 50],
     [path |-> "a/util.js", name |-> "util.js", size |-> 100],
     [path |-> "b/util.js", name |-> "util.js", size |-> 100],
     [path |-> "big.js", name |-> "big.js", size |-> 500]}

\* the URLs of the analyze requests that are handled side by side
PairUrls == {"https://github.com/o/r", "https://github.com/o/twin"}

\* the query given to searchInFiles (Null when it is missing)
Queries ==
    {Null} \cup {Str(s) : s \in {"", " ", "  ", "a", " a ", "to", "todo", " TODO ",
                                 "Needle", "zz", "aa"}}

-----------------------------------------------------------------------------
(* Actions.                                                                *)

Free(r) == req[r] = Null
Busy(r) == req[r] # Null
FirstFree == CHOOSE r \in Slots : Free(r) /\ \A q \in Slots : Free(q) => r <= q

\* a POST /api/analyze or /api/chat arrives and runs to its first await
Receive ==
    /\ \E r \in Slots : Free(r)
    /\ \E handler \in {"analyze", "chat"}, url \in ServerUrls, question \in Questions :
          /\ handler = "analyze" => question = ""
          /\ LET t == NewTask(handler, "server", url, question)
             IN Place(FirstFree, IF handler = "analyze" THEN Analyze(t) ELSE Chat(t))
    /\ UNCHANGED <<repoCache, puts, geminiKey, parsed, applied>>

\* githubService.getRepositoryCode(owner, repo) is called, once
Invoke ==
    /\ last = Null
    /\ \A r \in Slots : Free(r)
    /\ \E c \in CallRepos :
          LET t == Identified(NewTask("call", "service", "", ""), c)
          IN Place(1, getRepositoryCode(t))
    /\ UNCHANGED <<repoCache, puts, geminiKey, parsed, applied>>

\* the repository-metadata request of task r is answered
MetaResponse ==
    \E r \in Slots :
       /\ Busy(r)
       /\ req[r].pc = "meta"
       /\ \E answer \in MetaAnswers(req[r]) :
             LET t == Counted(req[r], answer)
             IN IF answer.ok
                THEN Place(r, Await([t EXCEPT !.repoInfo = answer.data], DirFetch("")))
                ELSE Place(r, Thrown(t, IngestionError(answer.message)))
       /\ UNCHANGED <<repoCache, puts, geminiKey, parsed, applied>>

\* a directory-listing request of task r is answered
DirResponse ==
    \E r \in Slots :
       /\ Busy(r)
       /\ req[r].pc = "dir"
       /\ \E answer \in DirAnswers(req[r], req[r].pending.path) :
             Continue(r, AfterDir(Counted(req[r], answer), getDirectoryContents(answer)))
       /\ UNCHANGED <<geminiKey, parsed, applied>>

\* a file-content request of task r is answered
FileResponse ==
    \E r \in Slots :
       /\ Busy(r)
       /\ req[r].pc = "file"
       /\ \E answer \in FileAnswers(req[r], req[r].pending.path) :
             Continue(r, AfterFile(Counted(req[r], answer), getFileContent(answer)))
       /\ UNCHANGED <<geminiKey, parsed, applied>>

\* the language-model request of task r is answered or fails
LlmResponse ==
    \E r \in Slots :
       /\ Busy(r)
       /\ req[r].pc = "llm"
       /\ \E ok \in BOOLEAN :
             Place(r, IF ok
                      THEN Respond(req[r], 200, [success |-> TRUE, answer |-> "answer"])
                      ELSE Respond(req[r], 500, [error |-> "Failed to chat with repository"]))
       /\ UNCHANGED <<repoCache, puts, geminiKey, parsed, applied>>

\* an analyze request for one of two repositories arrives while another
\* may be in progress
ReceivePair ==
    /\ \E r \in Slots : Free(r)
    /\ \E url \in PairUrls :
          Place(FirstFree, Analyze(NewTask("analyze", "server", url, "")))
    /\ UNCHANGED <<repoCache, puts, geminiKey, parsed, applied>>

\* githubService.getRepositoryCode is called, once, for a repository served
\* without failures
InvokeSteady ==
    /\ last = Null
    /\ \A r \in Slots : Free(r)
    /\ \E c \in SteadyRepos :
          LET t == Identified(NewTask("call", "service", "", ""), c)
          IN Place(1, getRepositoryCode(t))
    /\ UNCHANGED <<repoCache, puts, geminiKey, parsed, applied>>

\* searchInFiles is applied to the snapshot the call returned
Search ==
    /\ last # Null
    /\ last.pc = "done"
    /\ "returned" \in DOMAIN last.response
    /\ \E query \in Queries :
          applied' = [op |-> "search", repoData |-> last.response.returned,
                      query |-> query,
                      result |-> searchInFiles(last.response.returned, query)]
    /\ UNCHANGED <<repoCache, req, last, puts, geminiKey, parsed>>

\* one more code file is pushed to the list, codeFiles.sort(comparator) is
\* applied to the list, and again to its result
Prioritize ==
    LET codeFiles == IF applied = Null THEN <<>> ELSE applied.files
    IN /\ Len(codeFiles) < MaxSortLen
       /\ \E file \in SortPool :
             /\ \A i \in 1..Len(codeFiles) : codeFiles[i] # file
             /\ applied' = [op |-> "sort", files |-> Append(codeFiles, file),
                            sorted |-> SortFiles(Append(codeFiles, file)),
                            again |-> SortFiles(SortFiles(Append(codeFiles, file)))]
       /\ UNCHANGED <<repoCache, req, last, puts, geminiKey, parsed>>

\* extractRepoInfo is applied to a URL; the last two applications are kept
Extract ==
    /\ \E base \in UrlBases, suffix \in UrlSuffixes :
          parsed' = [a |-> parsed.b,
                     b |-> [base |-> base, suffix |-> suffix, url |-> base \o suffix,
                            info |-> extractRepoInfo(base \o suffix)]]
    /\ UNCHANGED <<repoCache, req, last, puts, geminiKey, applied>>

-----------------------------------------------------------------------------
(* Specifications.                                                         *)

Start ==
    /\ repoCache = <<>>
    /\ req = [r \in Slots |-> Null]
    /\ last = Null
    /\ puts = <<>>
    /\ parsed = [a |-> NoParse, b |-> NoParse]
    /\ applied = Null

\* the server
Init == Start /\ geminiKey \in BOOLEAN
Next == Receive \/ MetaResponse \/ DirResponse \/ FileResponse \/ LlmResponse
Spec == Init /\ [][Next]_vars

\* one ingestion by githubService.getRepositoryCode
InitWalk == Start /\ geminiKey = FALSE
NextWalk == Invoke \/ MetaResponse \/ DirResponse \/ FileResponse
SpecWalk == InitWalk /\ [][NextWalk]_vars

\* ingestions of the repositories served without failures, and searches
\* over the snapshots they return
InitSteady == Start /\ geminiKey = FALSE
NextSteady == InvokeSteady \/ MetaResponse \/ DirResponse \/ FileResponse \/ Search
SpecSteady == InitSteady /\ [][NextSteady]_vars

\* the prioritizing sort alone
NextSort == Prioritize
SpecSort == InitWalk /\ [][NextSort]_vars

\* analyze requests for two repositories, handled side by side
NextPair == ReceivePair \/ MetaResponse \/ DirResponse \/ FileResponse
SpecPair == InitWalk /\ [][NextPair]_vars

\* some task waits for the answer to a request of the given kind
Outstanding(kind) == \E r \in Slots : Busy(r) /\ req[r].pc = kind

\* one call of githubService.getRepositoryCode, with or without failures,
\* where every request of the content-hosting API that is outstanding is
\* answered in the end (with its data or with a failure): weak fairness of
\* each response. A response is enabled exactly while a task waits at its
\* await, so for the listings and the file contents ENABLED is written out
\* as that state predicate.
NextLive == Invoke \/ InvokeSteady \/ MetaResponse \/ DirResponse \/ FileResponse
SpecLive ==
    /\ InitWalk
    /\ [][NextLive]_vars
    /\ WF_vars(MetaResponse)
    /\ []<>(~Outstanding("dir")) \/ []<><<DirResponse>>_vars
    /\ []<>(~Outstanding("file")) \/ []<><<FileResponse>>_vars

\* extractRepoInfo alone
NextUrl == Extract
SpecUrl == InitWalk /\ [][NextUrl]_vars

-----------------------------------------------------------------------------
(* Vocabulary of the properties.                                           *)

InFlight == {req[r] : r \in {q \in Slots : Busy(q)}}
Ended == IF last = Null THEN {} ELSE {last}
Tasks == InFlight \cup Ended

\* the tasks of the next state, and those that arrive in the step
TasksAfter == {req'[r] : r \in {q \in Slots : req'[q] # Null}}
                 \cup (IF last' = Null THEN {} ELSE {last'})
Arriving == {req'[r] : r \in {q \in Slots : Free(q) /\ req'[q] # Null}}
               \cup (IF req' = req /\ last' # last THEN {last'} ELSE {})

\* the task of slot r after the step, in the slot or ended
After(r) == IF req'[r] = Null THEN last' ELSE req'[r]

\* the requests a task made of the content-hosting API
GithubCalls(t) == {i \in 1..Len(t.calls) : t.calls[i].kind \in {"meta", "dir", "file"}}
Requested(t, kind, path) ==
    \E i \in 1..Len(t.calls) : t.calls[i].kind = kind /\ t.calls[i].path = path
Failed(t, kind, path) ==
    \E i \in 1..Len(t.failed) : t.failed[i].kind = kind /\ t.failed[i].path = path

HasReturned(t) == t.pc = "done" /\ "returned" \in DOMAIN t.response
HasResponded(t, status) ==
    t.pc = "done" /\ "status" \in DOMAIN t.response /\ t.response.status = status

Paths(files) == {files[i].path : i \in 1..Len(files)}
Names(files) == {files[i].name : i \in 1..Len(files)}

\* the snapshot a direct call returned
ReturnedBy(t) == t.response.returned

Exists(t) == t.cacheKey \in DOMAIN Remote
Tree(t) == Remote[t.cacheKey]

\* depth of the directory at path: 0 for the root
RECURSIVE Slashes(_)
Slashes(path) ==
    IF Len(path) = 0 THEN 0
    ELSE (IF CharAt(path, 1) = "/" THEN 1 ELSE 0) + Slashes(SubSeq(path, 2, Len(path)))
DepthOf(path) == IF path = "" THEN 0 ELSE Slashes(path) + 1

HasCodeExtension(name) ==
    \E i \in 1..Len(codeExtensions) : EndsWith(ToLowerCase(name), codeExtensions[i])

\* a is the text b cut after some character
RECURSIVE IsPrefixRuns(_, _)
IsPrefixRuns(a, b) ==
    IF a = <<>> THEN TRUE
    ELSE IF b = <<>> THEN FALSE
    ELSE /\ Head(a).ch = Head(b).ch
         /\ \/ Head(a).n = Head(b).n /\ IsPrefixRuns(Tail(a), Tail(b))
            \/ Head(a).n < Head(b).n /\ Tail(a) = <<>>

-----------------------------------------------------------------------------
(* C1, as stated: a request that finds its identity cached uses the        *)
(* snapshot that was stored first under the key, whatever requests came    *)
(* in between, and makes no request of the content-hosting API.            *)
C1_UsesTheStoredSnapshot ==
    \A t \in Tasks :
        t.hit => /\ t.repoData = puts[t.cacheKey].first
                 /\ GithubCalls(t) = {}

(* C1, amended: once a snapshot is stored under a key, every request that  *)
(* arrives for that identity is a cache hit, uses the snapshot the cache   *)
(* holds under the key at that moment (the one stored most recently) and   *)
(* never makes a metadata, directory or file request.                      *)
C1_Step ==
    /\ \A t \in Arriving :
          (t.cacheKey # "" /\ t.cacheKey \in DOMAIN repoCache)
             => /\ t.hit
                /\ t.repoData = repoCache[t.cacheKey]
                /\ t.repoData = puts[t.cacheKey].latest
    /\ \A t \in TasksAfter : t.hit => GithubCalls(t) = {}
C1_LaterRequestsUseTheCache == [][C1_Step]_vars

\* a request was served from the cache after a second ingestion of the
\* identity had replaced the snapshot stored first
C1_Witness ==
    \E t \in Tasks :
        /\ t.hit
        /\ puts[t.cacheKey].first # puts[t.cacheKey].latest
        /\ t.repoData = puts[t.cacheKey].latest

-----------------------------------------------------------------------------
\* a snapshot comes whole from the walk that issued `calls`: the walk began
\* with the metadata and root requests, every file of the snapshot was
\* requested by it, once, and the count is that of the files
WholeSnapshot(snapshot, calls) ==
    /\ Len(calls) >= 2
    /\ calls[1] = MetaFetch
    /\ calls[2] = DirFetch("")
    /\ \A i \in 1..Len(snapshot.codeFiles) :
          /\ \E j \in 1..Len(calls) :
                /\ calls[j].kind = "file"
                /\ calls[j].for = "code"
                /\ calls[j].path = snapshot.codeFiles[i].path
          /\ \A k \in 1..Len(snapshot.codeFiles) :
                snapshot.codeFiles[k].path = snapshot.codeFiles[i].path => k = i
    /\ \A i \in 1..Len(snapshot.importantFiles) :
          \E j \in 1..Len(calls) :
             /\ calls[j].kind = "file"
             /\ calls[j].for = "important"
             /\ calls[j].path = snapshot.importantFiles[i].path
    /\ snapshot.totalFiles >= Len(snapshot.codeFiles) + Len(snapshot.importantFiles)
    /\ Len(snapshot.codeFiles) < MaxCodeFiles
          => snapshot.totalFiles = Len(snapshot.codeFiles) + Len(snapshot.importantFiles)

(* C2: requests for one identity that is not cached each walk the          *)
(* repository themselves (a request that missed awaits a request of its    *)
(* own, the last it issued, after its own metadata request); the cache     *)
(* entry is the snapshot of the ingestion that executed repoCache.set      *)
(* last, and every cache entry is a whole snapshot of one ingestion.       *)
C2_LastWriteWins ==
    /\ \A t \in InFlight :
          t.pc \in {"meta", "dir", "file"}
             => /\ ~t.hit
                /\ t.calls[1] = MetaFetch
                /\ t.pending = t.calls[Len(t.calls)]
    /\ DOMAIN repoCache = DOMAIN puts
    /\ \A key \in DOMAIN repoCache :
          /\ repoCache[key] = puts[key].latest
          /\ WholeSnapshot(repoCache[key], puts[key].calls)

\* two ingestions of one identity, which both missed, have both stored;
\* their snapshots differ and the cache holds that of the second
C2_Witness ==
    \E key \in DOMAIN puts :
        /\ puts[key].first # puts[key].latest
        /\ repoCache[key] = puts[key].latest
        /\ Len(puts[key].first.codeFiles) # Len(puts[key].latest.codeFiles)

-----------------------------------------------------------------------------
Causes == {NetworkError.message, NotFound.message}

(* C3: when the metadata request of a task fails, the task ends in that    *)
(* step with status 500 and the error "Failed to analyze repository: "     *)
(* followed by the cause, having made no directory or file request, and    *)
(* the step leaves repoCache (and the history of stores) as it was.        *)
C3_Step ==
    \A r \in Slots :
        (Busy(r) /\ req[r].pc = "meta" /\ req'[r] # req[r] /\ Failed(After(r), "meta", ""))
           => /\ req'[r] = Null
              /\ HasResponded(last', 500)
              /\ \E cause \in Causes :
                    last'.response.body.error = "Failed to analyze repository: " \o cause
              /\ last'.calls = <<MetaFetch>>
              /\ repoCache' = repoCache
              /\ puts' = puts
C3_MetadataFailureIsFatal == [][C3_Step]_vars

\* a request ended on a failed metadata request while the cache held an entry
C3_Witness ==
    /\ last # Null
    /\ Failed(last, "meta", "")
    /\ HasResponded(last, 500)
    /\ repoCache # <<>>

-----------------------------------------------------------------------------
\* what the walk requests for an item of the listing of the directory at path
Expected(t, path, item) ==
    LET itemPath == JoinPath(path, item.name)
    IN /\ (item.type = "file" /\ IsImportantCandidate(ToLowerCase(item.name)))
             => Requested(t, "file", itemPath)
       /\ (item.type = "file" /\ IsCodeCandidate(ToLowerCase(item.name), item.size))
             => Requested(t, "file", itemPath)
       /\ (IsAdmittedDir(item) /\ IsTraversed(item, DepthOf(path)))
             => Requested(t, "dir", itemPath)

(* C4: a call of getRepositoryCode whose metadata request succeeded        *)
(* returns a snapshot whatever directory and file requests failed; a       *)
(* failed file is absent from it, nothing is requested beneath a failed    *)
(* directory, and every other entry the walk considers is still requested. *)
C4_FetchFailuresDegrade ==
    \A t \in Ended :
        (t.handler = "call" /\ t.repoInfo # Null)
           => /\ HasReturned(t)
              /\ \A i \in 1..Len(t.failed) :
                    LET f == t.failed[i]
                    IN IF f.kind = "file"
                       THEN f.path \notin Paths(ReturnedBy(t).allFiles)
                       ELSE \A j \in 1..Len(t.calls) :
                               ~StartsWith(t.calls[j].path, f.path \o "/")
                               /\ (f.path = "" => j <= 2)
              /\ \A j \in 1..Len(t.calls) :
                    LET c == t.calls[j]
                    IN (c.kind = "dir" /\ ~Failed(t, "dir", c.path)
                           /\ DepthOf(c.path) <= MaxDepth)
                          => \A k \in 1..Min(MaxEntries, Len(Tree(t).dirs[c.path])) :
                                Expected(t, c.path, Tree(t).dirs[c.path][k])

\* a walk met a failed file request and went on to the last file of the root
C4_Witness ==
    /\ last # Null
    /\ last.handler = "call"
    /\ HasReturned(last)
    /\ Failed(last, "file", "src/edge.js")
    /\ "tail.js" \in Paths(ReturnedBy(last).codeFiles)

-----------------------------------------------------------------------------
InvalidUrl(t) == t.handler # "call" /\ extractRepoInfo(t.url) = Null

(* C5: a request whose URL yields no identity is answered with status 400  *)
(* in the step in which it arrives, has made no request of any external    *)
(* service, and its step leaves repoCache unchanged, on both endpoints.    *)
C5_Step ==
    /\ \A t \in TasksAfter :
          InvalidUrl(t) => /\ HasResponded(t, 400)
                           /\ t.calls = <<>>
    /\ \A t \in Arriving :
          InvalidUrl(t) => /\ repoCache' = repoCache
                           /\ puts' = puts
C5_InvalidUrlRejected == [][C5_Step]_vars

\* a chat request with a URL of another host was rejected while the cache
\* held an entry
C5_Witness ==
    /\ last # Null
    /\ last.handler = "chat"
    /\ last.url = "https://gitlab.com/o/r"
    /\ last.question # ""
    /\ HasResponded(last, 400)
    /\ repoCache # <<>>

-----------------------------------------------------------------------------
(* C6: two valid URLs with one base, differing by a trailing ".git", "/"   *)
(* or ".git/", give equal identities and so the same cache key.            *)
C6_SuffixesNormalize ==
    (parsed.a.base = parsed.b.base /\ parsed.a.base \in ValidBases)
       => /\ parsed.a.info # Null
          /\ parsed.a.info = parsed.b.info
          /\ CacheKey(parsed.a.info) = CacheKey(parsed.b.info)

\* the same base was parsed bare and with ".git/"
C6_Witness ==
    /\ parsed.a.base = parsed.b.base
    /\ parsed.a.base = "https://www.github.com/Own-er/my.repo"
    /\ parsed.a.suffix = ".git/"
    /\ parsed.b.suffix = ""
    /\ parsed.b.info = [owner |-> "Own-er", repo |-> "my.repo"]

-----------------------------------------------------------------------------
(* C7: the call for the repository holding index.js, README.md and         *)
(* utils/helper.js, with no failed request, returns a snapshot with        *)
(* index.js first in codeFiles, README.md in importantFiles and            *)
(* totalFiles = 3.                                                         *)
C7_EndToEnd ==
    \A t \in Ended :
        (t.handler = "call" /\ t.cacheKey = "demo/e2e" /\ t.failed = <<>>)
           => /\ HasReturned(t)
              /\ Len(ReturnedBy(t).codeFiles) >= 1
              /\ ReturnedBy(t).codeFiles[1].name = "index.js"
              /\ "README.md" \in Names(ReturnedBy(t).importantFiles)
              /\ ReturnedBy(t).totalFiles = 3

-----------------------------------------------------------------------------
\* the files a task has collected, and those of the snapshot it returned
CollectedCode(t) ==
    Paths(t.codeFiles)
       \cup (IF HasReturned(t)
             THEN Paths(ReturnedBy(t).codeFiles) \cup Paths(ReturnedBy(t).allFiles)
             ELSE {})

(* C8: an entry of a listing with a source extension and a size above      *)
(* 300,000 is never requested and is in no codeFiles.                      *)
C8_OversizedCodeNeverFetched ==
    \A t \in Tasks :
        (t.handler = "call" /\ Exists(t))
           => \A path \in DOMAIN Tree(t).dirs :
                 \A k \in 1..Len(Tree(t).dirs[path]) :
                    LET item == Tree(t).dirs[path][k]
                        itemPath == JoinPath(path, item.name)
                    IN (item.type = "file" /\ HasCodeExtension(item.name)
                           /\ item.size > CodeSizeLimit)
                          => /\ ~Requested(t, "file", itemPath)
                             /\ itemPath \notin CollectedCode(t)

\* a walk without failures went past huge.js (300,001 bytes) to tail.js
C8_Witness ==
    /\ last # Null
    /\ last.cacheKey = "demo/sizes"
    /\ last.failed = <<>>
    /\ HasReturned(last)
    /\ Requested(last, "file", "tail.js")
    /\ \E k \in 1..Len(RepoSizes.dirs[""]) :
          /\ RepoSizes.dirs[""][k].name = "huge.js"
          /\ RepoSizes.dirs[""][k].size > CodeSizeLimit

-----------------------------------------------------------------------------
\* every file record a task holds, collected or returned
Collected(t) ==
    Paths(t.codeFiles) \cup Paths(t.importantFiles)
       \cup (IF HasReturned(t)
             THEN Paths(ReturnedBy(t).codeFiles) \cup Paths(ReturnedBy(t).importantFiles)
                     \cup Paths(ReturnedBy(t).allFiles)
             ELSE {})

(* C9: no file whose response reports a size above 200,000 gives content   *)
(* to a snapshot: getFileContent answered null for it.                     *)
C9_OversizedContentRefused ==
    \A t \in Tasks :
        (t.handler = "call" /\ Exists(t))
           => \A path \in DOMAIN Tree(t).files :
                 Tree(t).files[path].size > FileSizeLimit => path \notin Collected(t)

\* big.js (250,000 bytes) was requested and answered without failure, and
\* the walk has returned
C9_Witness ==
    /\ last # Null
    /\ last.cacheKey = "demo/sizes"
    /\ last.failed = <<>>
    /\ HasReturned(last)
    /\ Requested(last, "file", "big.js")
    /\ RepoSizes.files["big.js"].size > FileSizeLimit

-----------------------------------------------------------------------------
CodeFileCapped(f) ==
    /\ RunsLen(f.content.text) <= CodeContentCap
    /\ RunsLen(f.content.text) = Min(CodeContentCap, RunsLen(f.fullContent.text))
    /\ IsPrefixRuns(f.content.text, f.fullContent.text)

(* C10: every CodeFile that githubService.getRepositoryCode collects or    *)
(* returns has at most 20,000 characters of content, and they are the      *)
(* first min(20000, length) characters of its fullContent.                 *)
C10_ContentIsCappedPrefix ==
    \A t \in Tasks :
        t.handler = "call"
           => /\ \A i \in 1..Len(t.codeFiles) : CodeFileCapped(t.codeFiles[i])
              /\ HasReturned(t)
                    => /\ \A i \in 1..Len(ReturnedBy(t).codeFiles) :
                             CodeFileCapped(ReturnedBy(t).codeFiles[i])
                       /\ \A i \in 1..Len(ReturnedBy(t).allFiles) :
                             "fullContent" \in DOMAIN ReturnedBy(t).allFiles[i]
                                => CodeFileCapped(ReturnedBy(t).allFiles[i])

\* src/long.js, 25,000 characters, is in a returned snapshot with 20,000
C10_Witness ==
    /\ last # Null
    /\ HasReturned(last)
    /\ \E i \in 1..Len(ReturnedBy(last).codeFiles) :
          LET f == ReturnedBy(last).codeFiles[i]
          IN /\ f.path = "src/long.js"
             /\ RunsLen(f.fullContent.text) = 25000
             /\ RunsLen(f.content.text) = CodeContentCap

-----------------------------------------------------------------------------
\* the position of the file with this path in files
IndexIn(files, path) == CHOOSE i \in 1..Len(files) : files[i].path = path

\* order holds the files of collected, each once, no file after one the
\* comparator puts behind it, files that compare equal in collected's order
IsPrioritized(order, collected) ==
    /\ Len(order) = Len(collected)
    /\ Paths(order) = Paths(collected)
    /\ Cardinality(Paths(order)) = Len(order)
    /\ \A i \in 1..Len(order) : order[i] = collected[IndexIn(collected, order[i].path)]
    /\ \A i \in 1..Len(order) : \A j \in (i + 1)..Len(order) :
          /\ Comparator(order[i], order[j]) <= 0
          /\ Comparator(order[i], order[j]) = 0
                => IndexIn(collected, order[i].path) < IndexIn(collected, order[j].path)

\* the code files of allFiles: all but the important files at its end
CodePart(snapshot) ==
    SubSeq(snapshot.allFiles, 1, Len(snapshot.allFiles) - Len(snapshot.importantFiles))

(* C11: the codeFiles of a returned snapshot are at most 25, and they are  *)
(* the first 25 (all, when fewer) of the code files the walk collected,    *)
(* taken in prioritized order.                                             *)
C11_CodeFilesAreTheFirst25 ==
    \A t \in Ended :
        (t.handler = "call" /\ HasReturned(t))
           => /\ Len(ReturnedBy(t).codeFiles) <= 25
              /\ Len(ReturnedBy(t).codeFiles) = Min(25, Len(t.codeFiles))
              /\ IsPrioritized(CodePart(ReturnedBy(t)), t.codeFiles)
              /\ \A i \in 1..Len(ReturnedBy(t).codeFiles) :
                    ReturnedBy(t).codeFiles[i] = CodePart(ReturnedBy(t))[i]

\* the walk of demo/wide collected 60 code files and returned 25, the
\* entry-point names first
C11_Witness ==
    /\ last # Null
    /\ HasReturned(last)
    /\ Len(last.codeFiles) = 60
    /\ Len(ReturnedBy(last).codeFiles) = 25
    /\ ReturnedBy(last).codeFiles[1].name = "index.js"
    /\ ReturnedBy(last).codeFiles[2].name = "main.js"
    /\ ReturnedBy(last).codeFiles[3].name = "router.js"

-----------------------------------------------------------------------------
\* some request of the task is for the entry at path or for one beneath it
Touched(t, path) ==
    \E j \in 1..Len(t.calls) :
       t.calls[j].kind # "meta"
          /\ (t.calls[j].path = path \/ StartsWith(t.calls[j].path, path \o "/"))

\* some file the task holds is the entry at path or lies beneath it
Holds(t, path) ==
    \E p \in Collected(t) : p = path \/ StartsWith(p, path \o "/")

(* C12: an entry at position 61 or later of a listing is never requested,  *)
(* nothing beneath it is requested, and it is in no file list.             *)
C12_OnlyFirst60Considered ==
    \A t \in Tasks :
        (t.handler = "call" /\ Exists(t))
           => \A path \in DOMAIN Tree(t).dirs :
                 \A k \in 61..Len(Tree(t).dirs[path]) :
                    LET itemPath == JoinPath(path, Tree(t).dirs[path][k].name)
                    IN ~Touched(t, itemPath) /\ ~Holds(t, itemPath)

\* the 60th file of a root of 61 files and a directory was requested and
\* the walk returned 60 files
C12_Witness ==
    /\ last # Null
    /\ last.cacheKey = "demo/wide"
    /\ HasReturned(last)
    /\ Len(RepoWide.dirs[""]) = 62
    /\ RepoWide.dirs[""][61].name = "server.js"
    /\ Requested(last, "file", RepoWide.dirs[""][60].name)
    /\ Len(ReturnedBy(last).allFiles) = 60

-----------------------------------------------------------------------------
(* C13: a file in a directory at depth 4 or deeper is never requested and  *)
(* is in no file list.                                                     *)
C13_NoFileBelowDepth3 ==
    \A t \in Tasks :
        (t.handler = "call" /\ Exists(t))
           => \A path \in DOMAIN Tree(t).dirs :
                 DepthOf(path) >= 4
                    => \A k \in 1..Len(Tree(t).dirs[path]) :
                          LET item == Tree(t).dirs[path][k]
                              itemPath == JoinPath(path, item.name)
                          IN item.type = "file"
                                => /\ ~Requested(t, "file", itemPath)
                                   /\ itemPath \notin Collected(t)

\* the walk of demo/deep collected the file at depth 3 and went past the
\* directory at depth 4, which holds a source file and a config file
C13_Witness ==
    /\ last # Null
    /\ last.cacheKey = "demo/deep"
    /\ HasReturned(last)
    /\ "src/lib/app/c.js" \in Paths(ReturnedBy(last).codeFiles)
    /\ DepthOf("src/lib/app/utils") = 4
    /\ "src/lib/app/utils/d.js" \in DOMAIN RepoDeep.files
    /\ "src/lib/app/utils/config/e.js" \in DOMAIN RepoDeep.files

-----------------------------------------------------------------------------
\* a directory name that is hidden or in the denylist
IsSkippedName(name) ==
    \/ CharAt(name, 1) = "."
    \/ name \in {"node_modules", "dist", "build", "target", "__pycache__", "vendor", ".git"}

(* C18: a directory whose name starts with '.' or is in the denylist is    *)
(* never listed, whatever the depth of the listing it appears in, nothing  *)
(* beneath it is requested and no file beneath it is in a file list.       *)
C18_SkippedDirsNeverEntered ==
    \A t \in Tasks :
        (t.handler = "call" /\ Exists(t))
           => \A path \in DOMAIN Tree(t).dirs :
                 \A k \in 1..Len(Tree(t).dirs[path]) :
                    LET item == Tree(t).dirs[path][k]
                        itemPath == JoinPath(path, item.name)
                    IN (item.type = "dir" /\ IsSkippedName(item.name))
                          => ~Touched(t, itemPath) /\ ~Holds(t, itemPath)

\* the walk of demo/policy went through the listings of the root, of src
\* and of src/utils, each of which holds hidden or denylisted directories
C18_Witness ==
    /\ last # Null
    /\ last.cacheKey = "demo/policy"
    /\ HasReturned(last)
    /\ "src/utils/u.js" \in Paths(ReturnedBy(last).codeFiles)
    /\ "src/utils/models/m.js" \in Paths(ReturnedBy(last).codeFiles)
    /\ "vendor/src/v.js" \in DOMAIN RepoPolicy.files
    /\ "src/utils/node_modules/nm.js" \in DOMAIN RepoPolicy.files

-----------------------------------------------------------------------------
\* the listing of the directory at path was gone through by the walk
WentThrough(t, path) ==
    /\ Requested(t, "dir", path)
    /\ ~Failed(t, "dir", path)
    /\ DepthOf(path) <= 3

(* C19: of the directories of a listing the walk went through that are     *)
(* neither hidden nor denylisted, those of the root listing are all        *)
(* listed, and those of a listing below the root are listed exactly when   *)
(* their lowercased name is in the allowlist.                              *)
C19_TraversalPolicy ==
    \A t \in Ended :
        (t.handler = "call" /\ Exists(t) /\ HasReturned(t))
           => \A path \in DOMAIN Tree(t).dirs :
                 WentThrough(t, path)
                    => \A k \in 1..Min(60, Len(Tree(t).dirs[path])) :
                          LET item == Tree(t).dirs[path][k]
                              itemPath == JoinPath(path, item.name)
                          IN (item.type = "dir" /\ ~IsSkippedName(item.name))
                                => (Requested(t, "dir", itemPath)
                                      <=> \/ DepthOf(path) = 0
                                          \/ ToLowerCase(item.name) \in
                                                {"src", "lib", "app", "components", "utils",
                                                 "services", "controllers", "models",
                                                 "routes", "middleware", "config"})

\* in demo/policy, misc and Build of the root were listed, and below the
\* root Components and lib were listed while extras, other and tests were not
C19_Witness ==
    /\ last # Null
    /\ last.cacheKey = "demo/policy"
    /\ HasReturned(last)
    /\ Requested(last, "dir", "misc")
    /\ Requested(last, "dir", "Build")
    /\ Requested(last, "dir", "src/Components")
    /\ Requested(last, "dir", "misc/lib")
    /\ ~Requested(last, "dir", "src/extras")
    /\ ~Requested(last, "dir", "misc/other")
    /\ ~Requested(last, "dir", "src/utils/tests")

-----------------------------------------------------------------------------
\* searchInFiles was applied, to a query it did not reject
Searched == applied # Null /\ applied.op = "search"
Answered == Searched /\ "query" \in DOMAIN applied.result

(* C14: for a query that is missing, or has fewer than 2 characters once   *)
(* trimmed, searchInFiles returns {results: [], totalMatches: 0} and no    *)
(* other field, whatever the snapshot.                                     *)
C14_ShortQueryGivesEmptyResult ==
    (Searched /\ (applied.query = Null
                    \/ applied.query.str \in {"", " ", "  ", "a", " a "}))
       => /\ applied.result = [results |-> <<>>, totalMatches |-> 0]
          /\ DOMAIN applied.result = {"results", "totalMatches"}

\* the query " a ", one character once trimmed, was given for the snapshot
\* of demo/text, whose files hold the letter a
C14_Witness ==
    /\ Searched
    /\ applied.query = Str(" a ")
    /\ last.cacheKey = "demo/text"
    /\ Len(applied.repoData.codeFiles) = 4
    /\ applied.result.totalMatches = 0

-----------------------------------------------------------------------------
\* the files searchInFiles looks into
SearchedFiles == applied.repoData.codeFiles \o applied.repoData.importantFiles

\* the numbers of the lines of the file that contain the query, ascending
MatchingLines(file) ==
    LET lines == SplitLines(SearchedContent(file).text)
        M == {l \in 1..Len(lines) : LineIncludes(lines[l], applied.result.query)}
    IN [k \in 1..Cardinality(M) |-> Nth(M, k)]

LineNumbers(matches) == [k \in 1..Len(matches) |-> matches[k].lineNumber]

(* C15: the result of a file with n matching lines carries the first       *)
(* min(5, n) of them in line order and the count n; a file with no         *)
(* matching line has no result, and a file with one has a result unless    *)
(* ten other files have.                                                   *)
C15_FiveLineMatchesAndTheCount ==
    Answered
       => /\ \A i \in 1..Len(applied.result.results) :
                LET r == applied.result.results[i]
                    f == SearchedFiles[IndexIn(SearchedFiles, r.file.path)]
                    n == Len(MatchingLines(f))
                IN /\ r.file.path \in Paths(SearchedFiles)
                   /\ n >= 1
                   /\ Len(r.matches) = Min(5, n)
                   /\ LineNumbers(r.matches) = SubSeq(MatchingLines(f), 1, Min(5, n))
                   /\ r.totalMatches = n
          /\ Len(applied.result.results) < 10
                => \A j \in 1..Len(SearchedFiles) :
                      Len(MatchingLines(SearchedFiles[j])) >= 1
                         => SearchedFiles[j].path \in
                               {applied.result.results[i].file.path :
                                   i \in 1..Len(applied.result.results)}

\* " TODO " was searched in demo/text: six.js, with the word on lines 1, 3,
\* 4, 6, 7 and 8, has five line-matches and the count 6; none.js has no result
C15_Witness ==
    /\ Answered
    /\ applied.query = Str(" TODO ")
    /\ last.cacheKey = "demo/text"
    /\ \E i \in 1..Len(applied.result.results) :
          LET r == applied.result.results[i]
          IN /\ r.file.name = "six.js"
             /\ LineNumbers(r.matches) = <<1, 3, 4, 6, 7>>
             /\ r.totalMatches = 6
    /\ \A i \in 1..Len(applied.result.results) :
          applied.result.results[i].file.name # "none.js"
    /\ Len(applied.result.results) = 4

-----------------------------------------------------------------------------
(* C20: every code file the walk collected that has a line containing the  *)
(* query has a result in the search over the returned snapshot, be it in   *)
(* the first 25 or not, be the line within the first 20,000 characters or  *)
(* not (fewer than ten files having results).                              *)
C20_EveryCollectedFileIsSearchable ==
    (Answered /\ Len(applied.result.results) < 10)
       => \A j \in 1..Len(last.codeFiles) :
             Len(MatchingLines(last.codeFiles[j])) >= 1
                => last.codeFiles[j].path \in
                      {applied.result.results[i].file.path :
                          i \in 1..Len(applied.result.results)}

-----------------------------------------------------------------------------
\* the prioritizing sort was applied
Sorted == applied # Null /\ applied.op = "sort"

\* rank 1..5 of the first keyword the lowercased name contains, 0 for none
KeywordRank(name) ==
    LET keywords == <<"index", "main", "app", "server", "router">>
        M == {i \in 1..5 : Includes(ToLowerCase(name), keywords[i])}
    IN IF M = {} THEN 0 ELSE CHOOSE i \in M : \A j \in M : i <= j

\* files the order does not tell apart
ComparesEqual(a, b) ==
    \/ KeywordRank(a.name) # 0 /\ KeywordRank(a.name) = KeywordRank(b.name)
    \/ KeywordRank(a.name) = 0 /\ KeywordRank(b.name) = 0 /\ a.size = b.size

(* C16: the sort gives the files it was given, files that compare equal in *)
(* the order they came in, and sorting its result again changes nothing.   *)
C16_StableAndIdempotent ==
    Sorted
       => /\ Len(applied.sorted) = Len(applied.files)
          /\ Paths(applied.sorted) = Paths(applied.files)
          /\ \A i \in 1..Len(applied.files) : \A j \in (i + 1)..Len(applied.files) :
                ComparesEqual(applied.files[i], applied.files[j])
                   => IndexIn(applied.sorted, applied.files[i].path)
                         < IndexIn(applied.sorted, applied.files[j].path)
          /\ applied.again = applied.sorted

\* b/util.js came before a/util.js, of the same size, and stays before it
\* while main.js moves in front of both
C16_Witness ==
    /\ Sorted
    /\ [i \in 1..Len(applied.files) |-> applied.files[i].path]
          = <<"b/util.js", "lib/main.js", "a/util.js">>
    /\ [i \in 1..Len(applied.sorted) |-> applied.sorted[i].path]
          = <<"lib/main.js", "b/util.js", "a/util.js">>

-----------------------------------------------------------------------------
Sign(x) == IF x < 0 THEN -1 ELSE IF x > 0 THEN 1 ELSE 0

(* C17: in the sorted list no file comes after one it ought to precede: a  *)
(* file with a keyword precedes every file without, a smaller rank         *)
(* precedes a larger, and without keywords a smaller size precedes a       *)
(* larger; over the files sorted the comparator is antisymmetric and       *)
(* transitive.                                                             *)
C17_OrderedByRankThenSize ==
    Sorted
       => LET F == {applied.files[i] : i \in 1..Len(applied.files)}
              rank == [f \in F |-> KeywordRank(f.name)]
              cmp == [f \in F |-> [g \in F |-> Sign(Comparator(f, g))]]
          IN /\ \A i \in 1..Len(applied.sorted) : \A j \in (i + 1)..Len(applied.sorted) :
                   LET a == applied.sorted[i]
                       b == applied.sorted[j]
                   IN /\ rank[a] = 0 => rank[b] = 0
                      /\ rank[b] # 0 => rank[a] <= rank[b]
                      /\ (rank[a] = 0 /\ rank[b] = 0) => a.size <= b.size
             /\ \A f, g \in F : cmp[f][g] = -cmp[g][f]
             /\ \A f, g, h \in F :
                   (cmp[f][g] <= 0 /\ cmp[g][h] <= 0) => cmp[f][h] <= 0

\* the largest file, without a keyword, came first and ends last; MainApp,
\* which holds "main" and "app", ranks as main, before router
C17_Witness ==
    /\ Sorted
    /\ [i \in 1..Len(applied.files) |-> applied.files[i].name]
          = <<"big.js", "router.js", "MainApp.jsx">>
    /\ [i \in 1..Len(applied.sorted) |-> applied.sorted[i].name]
          = <<"MainApp.jsx", "router.js", "big.js">>

-----------------------------------------------------------------------------
\* the file results of the search, and the searched files that have one
Results == applied.result.results
ResultPaths == {Results[i].file.path : i \in 1..Len(Results)}

\* the name holds one of the names of the importance list, in any case
NameIsImportant(name) ==
    \E n \in {"index.js", "main.js", "app.js", "server.js", "package.json",
              "readme.md", "config.js"} : Includes(ToLowerCase(name), n)

\* a file with count m of tier p ranks strictly before one with n of tier q
RanksBefore(p, m, q, n) == (p /\ ~q) \/ (p = q /\ m > n)

-----------------------------------------------------------------------------
RECURSIVE SumOfCounts(_, _)
SumOfCounts(results, i) ==
    IF i = 0 THEN 0 ELSE results[i].totalMatches + SumOfCounts(results, i - 1)

(* C28: for a query of at least 2 characters the totalMatches of the       *)
(* search is the sum of the totalMatches of the file results returned.     *)
C28_TotalIsTheSumOfTheReturned ==
    Answered => applied.result.totalMatches = SumOfCounts(Results, Len(Results))

-----------------------------------------------------------------------------
\* the calls to githubService.getRepositoryCode that returned a snapshot
Returns == {t \in Ended : t.handler = "call" /\ HasReturned(t)}

(* C24 as stated: in every snapshot of githubService.getRepositoryCode     *)
(* allFiles is the snapshot's codeFiles followed by its importantFiles.    *)
C24_AllFilesIsCodeFilesThenImportant ==
    \A t \in Returns :
        ReturnedBy(t).allFiles = ReturnedBy(t).codeFiles \o ReturnedBy(t).importantFiles

(* C24 amended: allFiles holds every code file the walk collected, the     *)
(* snapshot's codeFiles being its first entries, followed by the           *)
(* importantFiles; it is codeFiles followed by importantFiles exactly when *)
(* the walk collected at most 25 code files.                               *)
C24_AllFilesHoldEveryCollectedFile ==
    \A t \in Returns :
        LET s == ReturnedBy(t)
            n == Len(t.codeFiles)
        IN /\ Len(s.allFiles) = n + Len(s.importantFiles)
           /\ SubSeq(s.allFiles, n + 1, Len(s.allFiles)) = s.importantFiles
           /\ Paths(SubSeq(s.allFiles, 1, n)) = Paths(t.codeFiles)
           /\ SubSeq(s.allFiles, 1, Len(s.codeFiles)) = s.codeFiles
           /\ (n <= 25) <=> (s.allFiles = s.codeFiles \o s.importantFiles)

\* the walk of demo/wide returned 25 code files and an allFiles of 60, the
\* last of them f50.js, which is not among the 25
C24_Witness ==
    /\ last # Null
    /\ last \in Returns
    /\ last.cacheKey = "demo/wide"
    /\ Len(ReturnedBy(last).codeFiles) = 25
    /\ Len(ReturnedBy(last).allFiles) = 60
    /\ ReturnedBy(last).allFiles[60].name = "f50.js"
    /\ "f50.js" \notin Paths(ReturnedBy(last).codeFiles)

-----------------------------------------------------------------------------
(* C25: the listing of a directory at depth 4 or deeper is never           *)
(* requested.                                                              *)
C25_NoListingBelowDepth3 ==
    \A t \in Tasks :
        (t.handler = "call" /\ Exists(t))
           => \A path \in DOMAIN Tree(t).dirs :
                 DepthOf(path) >= 4 => ~Requested(t, "dir", path)

-----------------------------------------------------------------------------
\* path is the entry at e or lies beneath it
Under(path, e) == path = e \/ StartsWith(path, e \o "/")

\* in the depth-first walk of the tree of t in listing order, p comes
\* before q: p is a directory above q, or they part in some listing where
\* the entry leading to p stands before the entry leading to q
ComesBefore(t, p, q) ==
    \/ p # q /\ StartsWith(q, p \o "/")
    \/ \E d \in DOMAIN Tree(t).dirs :
          LET listing == Tree(t).dirs[d]
              At(path) == {i \in 1..Len(listing) :
                              Under(path, JoinPath(d, listing[i].name))}
          IN \E i \in At(p) : \E k \in At(q) : i < k

\* the requests of t were issued one after the other in depth-first
\* listing order, and the outstanding one is the one issued last
IsSequential(t) ==
    /\ t.pc \in {"meta", "dir", "file"} => t.pending = t.calls[Len(t.calls)]
    /\ t.calls[1] = MetaFetch
    /\ Len(t.calls) >= 2 => t.calls[2] = DirFetch("")
    /\ \A j \in 3..(Len(t.calls) - 1) :
          ComesBefore(t, t.calls[j].path, t.calls[j + 1].path)

C22_Step ==
    /\ \A r \in Slots :
          Busy(r) => \/ After(r).calls = req[r].calls
                     \/ /\ req[r].pending = req[r].calls[Len(req[r].calls)]
                        /\ After(r).calls \in
                              {Append(req[r].calls, c) :
                                  c \in {After(r).calls[Len(After(r).calls)]}}
    /\ \A t \in TasksAfter : Exists(t) => IsSequential(t)

(* C22: in every step an ingestion issues at most one request, and only    *)
(* when its one outstanding request, the last it issued, is answered; its  *)
(* requests follow one another in depth-first listing order.               *)
C22_RequestsAreSequential == [][C22_Step]_vars

\* the walk of demo/dirs ended after it fetched docs/docs.md, went down
\* into src/Lib for router.py and came back up to src/server.ts, one
\* request at a time
C22_Witness ==
    /\ last # Null
    /\ last.cacheKey = "demo/dirs"
    /\ HasReturned(last)
    /\ \E i \in 1..(Len(last.calls) - 3) :
          /\ last.calls[i].path = "docs/docs.md"
          /\ last.calls[i + 1] = DirFetch("src")
          /\ last.calls[i + 2] = DirFetch("src/Lib")
          /\ last.calls[i + 3].path = "src/Lib/router.py"
          /\ last.calls[Len(last.calls)].path = "src/server.ts"

-----------------------------------------------------------------------------
\* a chat request that found no snapshot under its key when it arrived
IsChatMiss(t) == t.handler = "chat" /\ ~t.hit /\ t.cacheKey # ""

\* the chat request came to chatWithRepo: the language-model request is
\* outstanding, or the missing key ended it
AtChat(t) ==
    \/ t.pc = "llm"
    \/ /\ HasResponded(t, 500)
       /\ t.response.body.error = "Gemini API key not configured"

C23_Step ==
    \A r \in Slots :
        (Busy(r) /\ IsChatMiss(req[r]))
           => /\ (req[r].pc # "llm" /\ AtChat(After(r)))
                    => /\ After(r).calls[1] = MetaFetch
                       /\ After(r).calls[2] = DirFetch("")
                       /\ After(r).repoInfo # Null
                       /\ After(r).repoData # Null
                       /\ After(r).repoData.totalFiles
                             = Len(After(r).codeFiles) + Len(After(r).importantFiles)
                       /\ After(r).cacheKey \in DOMAIN repoCache'
                       /\ repoCache'[After(r).cacheKey] = After(r).repoData
              /\ req[r].pc = "llm"
                    => /\ req[r].cacheKey \in DOMAIN repoCache
                       /\ req[r].cacheKey \in DOMAIN repoCache'
                       /\ After(r).pc = "done" => repoCache' = repoCache

(* C23: a chat request for an identity that is not cached ingests the      *)
(* repository and has its snapshot stored under the identity's key when    *)
(* the language-model call is made; the entry stays when that call fails.  *)
C23_ChatIngestsAndStoresFirst == [][C23_Step]_vars

\* a chat request that missed the cache ended on a failed language-model
\* call, and the snapshot it ingested is in the cache
C23_Witness ==
    /\ last # Null
    /\ IsChatMiss(last)
    /\ HasResponded(last, 500)
    /\ last.response.body.error = "Failed to chat with repository"
    /\ last.calls[Len(last.calls)] = LlmPost
    /\ last.cacheKey \in DOMAIN repoCache
    /\ repoCache[last.cacheKey] = last.repoData

-----------------------------------------------------------------------------
\* the content request of t for the file at path succeeded: it was made,
\* it did not fail, and the content was not refused for its size
Fetched(t, path) ==
    /\ Requested(t, "file", path)
    /\ ~Failed(t, "file", path)
    /\ path \in DOMAIN Tree(t).files
    /\ Tree(t).files[path].size < FileSizeLimit

(* C26: every candidate file whose content request succeeded, a file with  *)
(* empty content included, is in the code files (before the cap) or the    *)
(* important files of the snapshot and is counted in totalFiles.           *)
C26_EveryFetchedCandidateIsRecorded ==
    \A t \in Returns :
        Exists(t)
           => /\ \A j \in 1..Len(t.calls) :
                    (t.calls[j].kind = "file" /\ Fetched(t, t.calls[j].path))
                       => t.calls[j].path \in Paths(ReturnedBy(t).allFiles)
              /\ ReturnedBy(t).totalFiles
                    = Cardinality({j \in 1..Len(t.calls) :
                                      t.calls[j].kind = "file"
                                         /\ Fetched(t, t.calls[j].path)})

-----------------------------------------------------------------------------
HasSlash(s) == \E i \in 1..Len(s) : CharAt(s, i) = "/"

(* C27: when extractRepoInfo returns an identity, its owner and its repo   *)
(* are non-empty and hold no '/'.                                          *)
C27_IdentityHasOwnerAndRepo ==
    parsed.b.info # Null
       => /\ parsed.b.info.owner # "" /\ ~HasSlash(parsed.b.info.owner)
          /\ parsed.b.info.repo # "" /\ ~HasSlash(parsed.b.info.repo)

-----------------------------------------------------------------------------
\* file record f holds the content, cut to cap, of the file of repository
\* key at its path
IsFileOf(key, f, cap) ==
    /\ f.path \in DOMAIN Remote[key].files
    /\ f.content = substring(Text(Remote[key].files[f.path].content), cap)

\* snapshot s describes repository key and holds files of it only
IsSnapshotOf(key, s) ==
    /\ s.repoInfo.name = Remote[key].meta.name
    /\ s.repoInfo.language = Remote[key].meta.language
    /\ \A i \in 1..Len(s.codeFiles) :
          /\ IsFileOf(key, s.codeFiles[i], CodeContentCap)
          /\ s.codeFiles[i].size = Remote[key].files[s.codeFiles[i].path].size
    /\ \A i \in 1..Len(s.importantFiles) :
          IsFileOf(key, s.importantFiles[i], ImportantContentCap)

\* the paths of the content requests of t that were answered with content
Got(t) ==
    {t.calls[j].path : j \in {k \in 1..Len(t.calls) :
        /\ t.calls[k].kind = "file"
        /\ ~Failed(t, "file", t.calls[k].path)
        /\ (t.pc = "file" => k < Len(t.calls))
        /\ t.calls[k].path \in DOMAIN Tree(t).files
        /\ Truthy(getFileContent(Success(Tree(t).files[t.calls[k].path])))}}

(* C29: with ingestions side by side, the files an ingestion holds are     *)
(* those its own requests were answered with, with the content of its own  *)
(* repository; the snapshot it ends with, and the snapshot the cache holds *)
(* under a key, describe the repository of that key.                       *)
C29_IngestionsDoNotInterfere ==
    /\ \A t \in Tasks :
          (t.handler = "analyze" /\ Exists(t) /\ ~t.hit)
             => /\ Paths(t.codeFiles) \cup Paths(t.importantFiles) = Got(t)
                /\ \A i \in 1..Len(t.codeFiles) :
                      IsFileOf(t.cacheKey, t.codeFiles[i], CodeContentCap)
                /\ \A i \in 1..Len(t.importantFiles) :
                      IsFileOf(t.cacheKey, t.importantFiles[i], ImportantContentCap)
                /\ t.repoData # Null
                      => /\ IsSnapshotOf(t.cacheKey, t.repoData)
                         /\ Paths(t.repoData.codeFiles) = Paths(t.codeFiles)
                         /\ Paths(t.repoData.importantFiles) = Paths(t.importantFiles)
    /\ \A key \in DOMAIN repoCache : IsSnapshotOf(key, repoCache[key])

\* an ingestion of o/twin ended while one of o/r was in progress and
\* after another of o/r had stored; the cache holds under each key the a.js
\* of its own repository
C29_Witness ==
    /\ last # Null
    /\ last.cacheKey = "o/twin" /\ ~last.hit /\ HasResponded(last, 200)
    /\ Len(last.failed) = 0
    /\ DOMAIN repoCache = {"o/r", "o/twin"}
    /\ Len(repoCache["o/r"].codeFiles) = 1
    /\ repoCache["o/r"].codeFiles[1].size = 500
    /\ Len(repoCache["o/twin"].codeFiles) = 1
    /\ repoCache["o/twin"].codeFiles[1].size = 300
    /\ repoCache["o/twin"].repoInfo.name = "twin"
    /\ \E r \in Slots : Busy(r) /\ req[r].cacheKey = "o/r" /\ ~req[r].hit

-----------------------------------------------------------------------------
\* the call ended with its outcome: a snapshot returned or an ingestion
\* error thrown
HasOutcome(t) ==
    /\ t.pc = "done"
    /\ t.pending = Null
    /\ \/ HasReturned(t) /\ t.repoInfo # Null
       \/ "thrown" \in DOMAIN t.response /\ Failed(t, "meta", "")

=============================================================================
